---- MODULE Spec2Model ----
(***************************************************************************)
(* State-machine model of the chip-input interaction engine:              *)
(*   - the suggestion engine   (src/hooks/use-suggestions)                *)
(*   - the interaction controller and insertion cursor                    *)
(*     (src/components/chip-input/use-chip-input-state.ts)                *)
(* Text is a sequence of one-character strings, so that trimming and      *)
(* splitting are computed character by character as the code does.       *)
(***************************************************************************)
EXTENDS Integers, Sequences, FiniteSets, TLC

(***************************************************************************)
(* Bounds of the model.                                                    *)
(***************************************************************************)
\* longest raw query handed to search()
MaxQueryLen == 2
\* number of search() calls in one behaviour
MaxSearchCalls == 2
\* longest result list the external search function returns
MaxResults == 1
\* the configured debounce delay, in clock ticks
DebounceTicks == 1
\* longest text pasted
MaxTextLen == 3
\* longest text the input field holds
MaxTypedLen == 2
\* chips created in one behaviour
MaxNewChips == 2
\* commits suspended on the asynchronous validator at the same time
MaxPending == 1
\* suspended commits at a time where a second commit of a pending text is tried
MaxRacing == 2
\* longest token (text between delimiters, trimmed) typed or pasted
MaxTokenLen == 1
\* input changes in one behaviour of the control with a search function
MaxTypedSearches == 1
\* calls of validate and validateSync a host makes on the hook alone
MaxValidations == 2
\* longest list of one-character delimiters handed to splitByDelimiters
MaxDelimiters == 3
\* longest delimiter string handed to splitByDelimiters
MaxDelimiterLen == 2
\* longest result list of the search function of the engine on its own
MaxListLen == 3
\* characters entered in one behaviour of the control under a user who only types
MaxTypedKeys == 5

NULL == -1

(***************************************************************************)
(* Text helpers.                                                           *)
(***************************************************************************)
\* all sequences over S of length at most n
RECURSIVE SeqsUpTo(_, _)
SeqsUpTo(S, n) ==
  IF n = 0 THEN {<< >>}
  ELSE LET shorter == SeqsUpTo(S, n - 1)
       IN  shorter \cup {Append(t, c) : t \in {u \in shorter : Len(u) = n - 1}, c \in S}

IsSpace(c) == c \in {" ", "\n"}

RECURSIVE TrimStart(_)
TrimStart(t) ==
  IF t = << >> THEN << >>
  ELSE IF IsSpace(Head(t)) THEN TrimStart(Tail(t)) ELSE t

RECURSIVE TrimEnd(_)
TrimEnd(t) ==
  IF t = << >> THEN << >>
  ELSE IF IsSpace(t[Len(t)]) THEN TrimEnd(SubSeq(t, 1, Len(t) - 1)) ELSE t

\* String.prototype.trim
Trim(t) == TrimEnd(TrimStart(t))

(***************************************************************************)
(* State of the suggestion engine.                                         *)
(***************************************************************************)
VARIABLES
  \* ---- React state
  suggestions,        \* Suggestion[]
  isLoading,
  highlightedIndex,
  isVisible,
  \* ---- refs
  debounceTimerRef,   \* id of the timer set last, or NULL
  abortControllerRef, \* id of the controller created last, or NULL
  lastQueryRef,       \* trimmed query of the last search() call
  \* ---- environment
  hasOnSearch,        \* whether the onSearch prop is configured
  timers,             \* the pending timeouts of the event loop
  requests,           \* the external searches issued so far, in order of issue
  mounted,            \* the component that renders the hook is mounted
  \* ---- history
  callCount           \* number of search() calls so far that had an onSearch

searchRefs == <<debounceTimerRef, abortControllerRef, lastQueryRef,
                hasOnSearch, timers, requests, mounted, callCount>>

searchVars == <<suggestions, isLoading, highlightedIndex, isVisible, searchRefs>>

(***************************************************************************)
(* State of the validation hook (useChipValidation), which the controller  *)
(* instantiates with its validate prop.                                    *)
(***************************************************************************)
VARIABLES
  validatorRef,       \* validatorRef.current: the predicate validate() runs
  pendingEffect,      \* the effect that stores a new validate prop is due
  validations         \* the calls of validate and validateSync by a host

hookVars == <<validatorRef, pendingEffect, validations>>

(***************************************************************************)
(* A call of one of the pure functions of src/utils, made on its own.      *)
(***************************************************************************)
VARIABLES
  call                \* the function, its arguments, and what it gave back

utilVars == <<call>>

(***************************************************************************)
(* State of the interaction controller (useChipInputState).                *)
(***************************************************************************)
VARIABLES
  props,              \* the configuration the host passes in
  value,              \* the chips, owned by the host (controlled value)
  inputValue,         \* the pending input buffer
  insertPosition,     \* the insertion cursor: NULL or a gap index
  isSelectingRef,     \* guard flag of a suggestion selection
  selectTimers,       \* pending setTimeout(0) callbacks that clear the flag
  nextId,             \* generateId(): the next fresh id
  commits,            \* commits suspended on the asynchronous validator
  typed,              \* history: the text entered into the input, in how many events
  lastOp              \* history: the event handled last and its onChange call

chipVars == <<props, hookVars, utilVars, typed, value, inputValue, insertPosition, isSelectingRef,
              selectTimers, nextId, commits, lastOp>>

vars == <<searchVars, chipVars>>

(***************************************************************************)
(* Suggestion engine (useSuggestions).                                     *)
(***************************************************************************)
\* characters of the raw queries
QueryChars == {"a", " "}
Queries == SeqsUpTo(QueryChars, MaxQueryLen)

\* the values of the suggestions the host's search function answers with
MockSuggestionValues == << <<"A">>, <<"b">>, <<"c">> >>

\* their labels; the last suggestion has none
MockSuggestionLabels == << <<"a">>, <<"b">>, <<"undefined">> >>

\* their ids, the host's: no id generateId() hands out is among them
SuggestionId(i) == 0 - i

\* the list request id resolves with: n suggestions, tagged with the request
ResultsOf(id, n) ==
  [i \in 1..n |->
     [id |-> SuggestionId(i),
      value |-> MockSuggestionValues[((i - 1) % Len(MockSuggestionValues)) + 1],
      label |-> MockSuggestionLabels[((i - 1) % Len(MockSuggestionLabels)) + 1],
      from |-> id]]

\* clearTimeout(ref): drops the timer from the event loop's table
ClearTimeoutSkipped(tab, ref) == tab
ClearTimeout(tab, ref) ==
  IF ref = NULL THEN tab ELSE {t \in tab : t.id # ref}

\* the guard of the resolution: lastQueryRef.current === trimmedQuery
IsCurrentAlways(query) == TRUE
IsCurrent(query) == lastQueryRef = query

\* delay the debounce timer is armed with
TimerDelay == DebounceTicks

SetIdle ==
  /\ suggestions' = << >>
  /\ isVisible' = FALSE
  /\ highlightedIndex' = -1

\* search(query).  abortControllerRef.current.abort() changes nothing: the
\* controller's signal is handed to nobody.
Search(q) ==
  /\ hasOnSearch => callCount < MaxSearchCalls
  /\ LET trimmed == Trim(q)
         id == callCount + 1
         cleared == ClearTimeout(timers, debounceTimerRef)
         \* history: calls of the burst that the timer of the last call belongs to
         before == {t \in timers : t.id = callCount}
         burst == IF before = {} THEN 1 ELSE (CHOOSE t \in before : TRUE).burst + 1
     IN  /\ lastQueryRef' = trimmed
         /\ callCount' = IF hasOnSearch THEN id ELSE callCount
         /\ IF trimmed = << >> \/ ~hasOnSearch
              THEN /\ SetIdle
                   /\ timers' = cleared
                   /\ debounceTimerRef' = debounceTimerRef
              ELSE /\ timers' = cleared \cup
                        {[id |-> id, query |-> trimmed, raw |-> q,
                          delay |-> TimerDelay, age |-> 0, burst |-> burst]}
                   /\ debounceTimerRef' = id
                   /\ UNCHANGED <<suggestions, isVisible, highlightedIndex>>
  /\ UNCHANGED <<isLoading, abortControllerRef, hasOnSearch, requests, mounted>>

\* time passes: every pending timer is one tick older
Tick ==
  /\ \E t \in timers : t.age < DebounceTicks
  /\ timers' = {[t EXCEPT !.age = IF @ < DebounceTicks THEN @ + 1 ELSE @] : t \in timers}
  /\ UNCHANGED <<suggestions, isLoading, highlightedIndex, isVisible,
                 debounceTimerRef, abortControllerRef, lastQueryRef,
                 hasOnSearch, requests, mounted, callCount>>

\* the debounce callback runs up to its await: onSearch(trimmedQuery) is called
TimerFires(t) ==
  /\ t \in timers
  /\ t.age >= t.delay
  /\ timers' = timers \ {t}
  /\ abortControllerRef' = Len(requests) + 1
  /\ requests' = Append(requests,
       [query |-> t.query, gen |-> t.id, waited |-> t.age,
        latest |-> (t.id = callCount), burst |-> t.burst,
        status |-> "pending", n |-> 0, late |-> FALSE, errors |-> 0])
  /\ isLoading' = TRUE
  /\ UNCHANGED <<suggestions, highlightedIndex, isVisible, debounceTimerRef,
                 lastQueryRef, hasOnSearch, mounted, callCount>>

\* whether a search issued after that of request id has already resolved
NewerResolved(id) ==
  \E b \in DOMAIN requests : /\ requests[b].gen > requests[id].gen
                             /\ requests[b].status = "resolved"

\* finally { setIsLoading(false) }
FinallySkipped == UNCHANGED isLoading
Finally == isLoading' = FALSE

\* the state of an unmounted component is gone: React drops the calls of its
\* setters
SettersDropped == UNCHANGED <<suggestions, isVisible, highlightedIndex, isLoading>>

\* results.length > 0 ? 0 : -1
FirstOrNoneKeepsNone(n) == -1
FirstOrNone(n) == IF n > 0 THEN 0 ELSE -1

\* setIsVisible(results.length > 0)
ShownAlways(n) == TRUE
ShownIfAny(n) == n > 0

\* the promise of request id resolves with n results
Resolve(id, n) ==
  /\ id \in DOMAIN requests
  /\ requests[id].status = "pending"
  /\ requests' = [requests EXCEPT ![id].status = "resolved", ![id].n = n,
                                  ![id].late = NewerResolved(id)]
  /\ IF ~mounted
       THEN SettersDropped
       ELSE /\ IF IsCurrent(requests[id].query)
                 THEN /\ suggestions' = ResultsOf(id, n)
                      /\ isVisible' = ShownIfAny(n)
                      /\ highlightedIndex' = FirstOrNone(n)
                 ELSE UNCHANGED <<suggestions, isVisible, highlightedIndex>>
            /\ Finally
  /\ UNCHANGED <<debounceTimerRef, abortControllerRef, lastQueryRef,
                 hasOnSearch, timers, mounted, callCount>>

\* what the promise of a request may reject with: an Error, an Error named
\* AbortError, a value that is no Error (a string, a plain object)
Rejections == {"Error", "AbortError", "NonError"}

\* error instanceof Error && error.name !== 'AbortError'
IsReported(kind) == kind # "NonError" /\ kind # "AbortError"

\* the promise of request id rejects; errors counts the calls of the error
\* path (onError if configured, the console otherwise) for the request
Reject(id, kind) ==
  /\ id \in DOMAIN requests
  /\ requests[id].status = "pending"
  /\ requests' = [requests EXCEPT ![id].status = kind,
                                  ![id].late = NewerResolved(id),
                                  ![id].errors = IF IsReported(kind) THEN @ + 1 ELSE @]
  /\ IF ~mounted
       THEN SettersDropped
       ELSE /\ SetIdle
            /\ Finally
  /\ UNCHANGED <<debounceTimerRef, abortControllerRef, lastQueryRef,
                 hasOnSearch, timers, mounted, callCount>>

\* the cleanup of the effect, at the unmount: clearTimeout on the pending
\* timer; abortControllerRef.current.abort() changes nothing (see Search)
Unmount ==
  /\ mounted
  /\ mounted' = FALSE
  /\ timers' = ClearTimeout(timers, debounceTimerRef)
  /\ UNCHANGED <<suggestions, isLoading, highlightedIndex, isVisible,
                 debounceTimerRef, abortControllerRef, lastQueryRef,
                 hasOnSearch, requests, callCount>>

\* handleSelect(suggestion)
HandleSelect(i) ==
  /\ i \in DOMAIN suggestions
  /\ SetIdle
  /\ UNCHANGED <<isLoading, searchRefs>>

\* handleHighlight(index)
HandleHighlight(i) ==
  /\ highlightedIndex' = i
  /\ UNCHANGED <<suggestions, isVisible, isLoading, searchRefs>>

\* close()
CloseKeepsOpen ==
  UNCHANGED <<isVisible, highlightedIndex, suggestions, isLoading, searchRefs>>
Close ==
  /\ isVisible' = FALSE
  /\ highlightedIndex' = -1
  /\ UNCHANGED <<suggestions, isLoading, searchRefs>>

\* clear()
ClearKeepsQuery ==
  /\ SetIdle
  /\ UNCHANGED <<lastQueryRef, isLoading, debounceTimerRef, abortControllerRef,
                 hasOnSearch, timers, requests, mounted, callCount>>
Clear ==
  /\ SetIdle
  /\ lastQueryRef' = << >>
  /\ UNCHANGED <<isLoading, debounceTimerRef, abortControllerRef,
                 hasOnSearch, timers, requests, mounted, callCount>>

Keys == {"ArrowDown", "ArrowUp", "Enter", "Escape", "Tab", "x"}

ValidHighlight == highlightedIndex >= 0 /\ highlightedIndex < Len(suggestions)

\* setHighlightedIndex((prev) => (prev < suggestions.length - 1 ? prev + 1 : 0))
HighlightBelow(prev, length) == IF prev < length - 1 THEN prev + 1 ELSE 0

\* setHighlightedIndex((prev) => (prev > 0 ? prev - 1 : suggestions.length - 1))
HighlightAboveStopsAtTop(prev, length) == IF prev > 0 THEN prev - 1 ELSE 0
HighlightAbove(prev, length) == IF prev > 0 THEN prev - 1 ELSE length - 1

\* handleKeyDown(e) of the suggestion engine
SuggestionsKeyDown(key) ==
  /\ UNCHANGED <<isLoading, searchRefs>>
  /\ IF ~isVisible \/ Len(suggestions) = 0
       THEN UNCHANGED <<suggestions, isVisible, highlightedIndex>>
       ELSE CASE key = "ArrowDown" ->
                   /\ highlightedIndex' =
                        HighlightBelow(highlightedIndex, Len(suggestions))
                   /\ UNCHANGED <<suggestions, isVisible>>
              [] key = "ArrowUp" ->
                   /\ highlightedIndex' =
                        HighlightAbove(highlightedIndex, Len(suggestions))
                   /\ UNCHANGED <<suggestions, isVisible>>
              [] key = "Enter" ->
                   IF ValidHighlight
                     THEN SetIdle
                     ELSE UNCHANGED <<suggestions, isVisible, highlightedIndex>>
              [] key = "Escape" ->
                   /\ isVisible' = FALSE
                   /\ highlightedIndex' = -1
                   /\ UNCHANGED suggestions
              [] key = "Tab" ->
                   IF ValidHighlight
                     THEN SetIdle
                     ELSE /\ isVisible' = FALSE
                          /\ highlightedIndex' = -1
                          /\ UNCHANGED suggestions
              [] OTHER -> UNCHANGED <<suggestions, isVisible, highlightedIndex>>

InitSearch ==
  /\ suggestions = << >>
  /\ isLoading = FALSE
  /\ highlightedIndex = -1
  /\ isVisible = FALSE
  /\ debounceTimerRef = NULL
  /\ abortControllerRef = NULL
  /\ lastQueryRef = << >>
  /\ hasOnSearch \in BOOLEAN
  /\ timers = {}
  /\ requests = << >>
  /\ mounted = TRUE
  /\ callCount = 0

\* no pure function is called on its own
NoCall == [fn |-> "none", input |-> << >>, delimiters |-> << >>,
           result |-> << >>, throws |-> FALSE]

\* history: no text has been entered
NothingTyped ==
  [text |-> << >>, events |-> 0, pastes |-> 0, last |-> << >>, by |-> "none"]

\* the hook on its own (renderHook): the controller is not there
NoController ==
  /\ props = [validate |-> "none", normalize |-> "identity", isEqual |-> "strict",
              parse |-> "default", delimiters |-> "default"]
  /\ validatorRef = "none"
  /\ pendingEffect = FALSE
  /\ validations = << >>
  /\ value = << >>
  /\ inputValue = << >>
  /\ insertPosition = NULL
  /\ isSelectingRef = FALSE
  /\ selectTimers = 0
  /\ nextId = 1
  /\ commits = << >>
  /\ lastOp = [ev |-> "none", called |-> FALSE, k |-> 0, dups |-> 0]
  /\ typed = NothingTyped

\* the host calls the functions of the hook while the hook is mounted
NextSearch ==
  \/ \E q \in Queries : mounted /\ Search(q) /\ UNCHANGED chipVars
  \/ Tick /\ UNCHANGED chipVars
  \/ \E t \in timers : TimerFires(t) /\ UNCHANGED chipVars
  \/ \E id \in DOMAIN requests, n \in 0..MaxResults :
        Resolve(id, n) /\ UNCHANGED chipVars
  \/ \E id \in DOMAIN requests, kind \in Rejections :
        Reject(id, kind) /\ UNCHANGED chipVars
  \/ \E i \in DOMAIN suggestions : mounted /\ HandleSelect(i) /\ UNCHANGED chipVars
  \/ \E i \in -1..MaxResults : mounted /\ HandleHighlight(i) /\ UNCHANGED chipVars
  \/ mounted /\ Close /\ UNCHANGED chipVars
  \/ mounted /\ Clear /\ UNCHANGED chipVars
  \/ \E key \in Keys : mounted /\ SuggestionsKeyDown(key) /\ UNCHANGED chipVars
  \/ Unmount /\ UNCHANGED chipVars

\* the engine on its own, as the hook's tests render it
InitSearchAlone == InitSearch /\ NoController /\ call = NoCall

SpecSearch == InitSearchAlone /\ [][NextSearch]_vars

\* whether handleKeyDown of the engine returns true
SuggestionsHandledAnyTab(key) ==
  /\ isVisible /\ Len(suggestions) # 0
  /\ \/ key \in {"ArrowDown", "ArrowUp", "Escape", "Tab"}
     \/ key = "Enter" /\ ValidHighlight
SuggestionsHandled(key) ==
  /\ isVisible /\ Len(suggestions) # 0
  /\ \/ key \in {"ArrowDown", "ArrowUp", "Escape"}
     \/ key \in {"Enter", "Tab"} /\ ValidHighlight

\* the onSelect prop of the engine on its own is a mock function, which keeps
\* the arguments of its calls
OnSelectSkipped(suggestion) == UNCHANGED call
OnSelect(suggestion) ==
  call' = [call EXCEPT !.fn = "onSelect", !.result = Append(@, suggestion)]

\* the controller is not there
ControllerAbsent ==
  UNCHANGED <<props, hookVars, typed, value, inputValue, insertPosition,
              isSelectingRef, selectTimers, nextId, commits, lastOp>>

\* handleSelect(suggestion), with the mock onSelect
SelectSuggestion(i) ==
  /\ HandleSelect(i)
  /\ OnSelect(suggestions[i])
  /\ ControllerAbsent

\* handleKeyDown(e), with the mock onSelect
DropdownKeyDown(key) ==
  /\ SuggestionsKeyDown(key)
  /\ IF SuggestionsHandled(key) /\ key \in {"Enter", "Tab"}
       THEN OnSelect(suggestions[highlightedIndex + 1])
       ELSE UNCHANGED call
  /\ ControllerAbsent

\* the engine on its own under a search function that returns longer lists,
\* and a host that highlights any index
NextDropdown ==
  \/ \E q \in Queries : mounted /\ Search(q) /\ UNCHANGED chipVars
  \/ Tick /\ UNCHANGED chipVars
  \/ \E t \in timers : TimerFires(t) /\ UNCHANGED chipVars
  \/ \E id \in DOMAIN requests, n \in 0..MaxListLen :
        Resolve(id, n) /\ UNCHANGED chipVars
  \/ \E key \in Keys : mounted /\ DropdownKeyDown(key)
  \/ \E i \in DOMAIN suggestions : mounted /\ SelectSuggestion(i)
  \/ \E i \in -1..(MaxListLen + 1) : mounted /\ HandleHighlight(i) /\ UNCHANGED chipVars
  \/ mounted /\ Close /\ UNCHANGED chipVars
  \/ mounted /\ Clear /\ UNCHANGED chipVars

SpecDropdown == InitSearchAlone /\ [][NextDropdown]_vars

\* the engine on its own under a host that highlights listed suggestions only
\* (onMouseEnter of a rendered item)
NextListed ==
  \/ \E q \in Queries : mounted /\ Search(q) /\ UNCHANGED chipVars
  \/ Tick /\ UNCHANGED chipVars
  \/ \E t \in timers : TimerFires(t) /\ UNCHANGED chipVars
  \/ \E id \in DOMAIN requests, n \in 0..MaxListLen :
        Resolve(id, n) /\ UNCHANGED chipVars
  \/ \E id \in DOMAIN requests : Reject(id, "Error") /\ UNCHANGED chipVars
  \/ \E key \in Keys : mounted /\ DropdownKeyDown(key)
  \/ \E i \in DOMAIN suggestions : mounted /\ SelectSuggestion(i)
  \/ \E i \in DOMAIN suggestions :
        mounted /\ HandleHighlight(i - 1) /\ UNCHANGED chipVars
  \/ mounted /\ Close /\ UNCHANGED chipVars
  \/ mounted /\ Clear /\ UNCHANGED chipVars
  \/ Unmount /\ UNCHANGED chipVars

SpecListed == InitSearchAlone /\ [][NextListed]_vars

(***************************************************************************)
(* Interaction controller: text, parsing and policies.                     *)
(***************************************************************************)
\* characters of the typed and pasted texts
TextChars == {"a", "A", ",", " "}
Texts == SeqsUpTo(TextChars, MaxTypedLen)
\* characters of the clipboard texts
ClipboardChars == {"a", "A", ",", "\n"}
PastedTexts == SeqsUpTo(ClipboardChars, MaxTextLen)

\* DEFAULT_DELIMITERS
DefaultDelimiters == <<",", ";">>
\* the delimiters of the "Custom Delimiters" example of the demo application
CustomDelimiters == <<"|", "-", ",">>

\* the delimiters prop: a list of one-character strings
Delimiters ==
  IF props.delimiters = "custom" THEN CustomDelimiters ELSE DefaultDelimiters

Range(f) == {f[i] : i \in DOMAIN f}

\* containsDelimiter(input, delimiters), for one-character delimiters
ContainsDelimiter(input, delimiters) ==
  \E i \in DOMAIN input : input[i] \in Range(delimiters)

\* input.split(regex): the pieces between the characters of the class
RECURSIVE SplitRaw(_, _)
SplitRaw(input, class) ==
  IF \A i \in DOMAIN input : input[i] \notin class
    THEN <<input>>
    ELSE LET i == CHOOSE j \in DOMAIN input :
                    /\ input[j] \in class
                    /\ \A h \in 1..(j - 1) : input[h] \notin class
         IN  <<SubSeq(input, 1, i - 1)>>
               \o SplitRaw(SubSeq(input, i + 1, Len(input)), class)

RECURSIVE TrimAndDropEmpty(_)
TrimAndDropEmpty(pieces) ==
  IF pieces = << >> THEN << >>
  ELSE LET t == Trim(Head(pieces))
       IN  (IF Len(t) > 0 THEN <<t>> ELSE << >>) \o TrimAndDropEmpty(Tail(pieces))

\* the characters of the texts, and of the delimiters
AllChars == {"\n", " ", ",", "-", ";", "A", "a", "|"}

\* the code unit of a character
CharCode(c) ==
  CASE c = "\n" -> 10 [] c = " " -> 32 [] c = "," -> 44 [] c = "-" -> 45
    [] c = ";" -> 59 [] c = "A" -> 65 [] c = "a" -> 97 [] c = "|" -> 124

\* new RegExp(`[${escapedDelimiters.join('')}]`): the class the pattern
\* denotes.  Every delimiter is one atom of the class (the escape makes a
\* metacharacter a literal atom; "-" is not among the characters escaped), and
\* atom "-" atom is a range, which is a SyntaxError when out of order.
RECURSIVE ClassRanges(_)
ClassRanges(atoms) ==
  IF atoms = << >> THEN [ok |-> TRUE, chars |-> {}]
  ELSE IF Len(atoms) >= 3 /\ atoms[2] = "-"
    THEN LET rest == ClassRanges(SubSeq(atoms, 4, Len(atoms)))
             lo == CharCode(atoms[1])
             hi == CharCode(atoms[3])
         IN  [ok |-> lo <= hi /\ rest.ok,
              chars |-> {c \in AllChars : lo <= CharCode(c) /\ CharCode(c) <= hi}
                          \cup rest.chars]
    ELSE LET rest == ClassRanges(Tail(atoms))
         IN  [ok |-> rest.ok, chars |-> {atoms[1]} \cup rest.chars]

\* the delimiter lists splitByDelimiters is called with
DelimiterLists ==
  {DefaultDelimiters, CustomDelimiters,
   DefaultDelimiters \o <<"\n">>, CustomDelimiters \o <<"\n">>}

\* the pattern of every delimiter list
RegExp == [delimiters \in DelimiterLists |-> ClassRanges(delimiters)]

\* splitByDelimiters throws: the RegExp constructor rejects the pattern
SplitThrows(delimiters) == ~RegExp[delimiters].ok

\* splitByDelimiters(input, delimiters), for one-character delimiters
SplitByDelimiters(input, delimiters) ==
  TrimAndDropEmpty(SplitRaw(input, RegExp[delimiters].chars))

\* the characters String.prototype.replace escapes in a delimiter
RegexSpecials == {".", "*", "+", "?", "^", "$", "{", "}", "(", ")", "|", "[", "]", "\\"}

\* d.replace(/[.*+?^${}()|[\]\\]/g, '\\$&'), d a string of any length
RECURSIVE EscapeDelimiter(_)
EscapeDelimiter(d) ==
  IF d = << >> THEN << >>
  ELSE (IF Head(d) \in RegexSpecials THEN <<"\\", Head(d)>> ELSE <<Head(d)>>)
         \o EscapeDelimiter(Tail(d))

\* escapedDelimiters.join('')
RECURSIVE JoinEscaped(_)
JoinEscaped(delimiters) ==
  IF delimiters = << >> THEN << >>
  ELSE EscapeDelimiter(Head(delimiters)) \o JoinEscaped(Tail(delimiters))

\* the atoms of the class [...] the RegExp constructor reads in the pattern:
\* a backslash and the character after it are one atom, that character
RECURSIVE ClassAtoms(_)
ClassAtoms(pattern) ==
  IF pattern = << >> THEN << >>
  ELSE IF Head(pattern) = "\\" /\ Len(pattern) >= 2
    THEN <<pattern[2]>> \o ClassAtoms(SubSeq(pattern, 3, Len(pattern)))
    ELSE <<Head(pattern)>> \o ClassAtoms(Tail(pattern))

\* input.includes(delimiter)
Includes(input, delimiter) ==
  \E i \in 0..Len(input) :
     /\ i + Len(delimiter) <= Len(input)
     /\ SubSeq(input, i + 1, i + Len(delimiter)) = delimiter

\* containsDelimiter(input, delimiters), for delimiter strings of any length
ContainsDelimiterString(input, delimiters) ==
  \E k \in DOMAIN delimiters : Includes(input, delimiters[k])

\* splitByDelimiters(input, delimiters), for delimiter strings of any length:
\* whether the RegExp constructor throws, and the strings returned otherwise
SplitByDelimiterStrings(input, delimiters) ==
  LET class == ClassRanges(ClassAtoms(JoinEscaped(delimiters)))
  IN  [throws |-> ~class.ok,
       result |-> IF class.ok THEN TrimAndDropEmpty(SplitRaw(input, class.chars))
                  ELSE << >>]

\* values.join(separator)
RECURSIVE Join(_, _)
Join(values, sep) ==
  IF values = << >> THEN << >>
  ELSE IF Len(values) = 1 THEN Head(values)
  ELSE Head(values) \o <<sep>> \o Join(Tail(values), sep)

\* array.slice(from, to) and array.slice(from), for indexes >= 0
Slice(arr, from, to) ==
  LET hi == IF to < Len(arr) THEN to ELSE Len(arr)
  IN  IF from >= hi THEN << >> ELSE SubSeq(arr, from + 1, hi)
SliceFrom(arr, from) == Slice(arr, from, Len(arr))

ToLowerCase(t) == [i \in DOMAIN t |-> IF t[i] = "A" THEN "a" ELSE t[i]]
ToUpperCase(t) == [i \in DOMAIN t |-> IF t[i] = "a" THEN "A" ELSE t[i]]

\* absent label, absent value
Undefined == <<"undefined">>
NullValue == <<"null">>

\* the parser returned null
NoParse == [value |-> NullValue, label |-> Undefined]

\* defaultParseInput
DefaultParseInputUntrimmed(input) ==
  IF Trim(input) = << >> THEN NoParse ELSE [value |-> input, label |-> Undefined]
DefaultParseInput(input) ==
  LET trimmed == Trim(input)
  IN  IF trimmed = << >> THEN NoParse ELSE [value |-> trimmed, label |-> Undefined]

\* shortest input the rejecting custom parser accepts
MinParseLen == 3

\* parseInputFn: the default parser or one of two custom parsers
ParseInputFn(input) ==
  CASE props.parse = "default" -> DefaultParseInput(input)
    [] props.parse = "upper" ->
         [value |-> ToUpperCase(Trim(input)), label |-> Trim(input)]
    [] props.parse = "minlen" ->
         IF Len(input) < MinParseLen THEN NoParse
         ELSE [value |-> input, label |-> Undefined]

\* normalize: defaultNormalize or lower-casing
Normalize(v) == IF props.normalize = "lower" THEN ToLowerCase(v) ELSE v

\* isEqual: defaultIsEqual or a case-insensitive comparison
IsEqual(a, b) ==
  IF props.isEqual = "ci" THEN ToLowerCase(a) = ToLowerCase(b) ELSE a = b

\* value.some((chip) => isEqual(normalize(chip.value), normalizedValue))
IsDuplicateNever(v, chips) == FALSE
IsDuplicate(v, chips) ==
  \E i \in DOMAIN chips : IsEqual(Normalize(chips[i].value), Normalize(v))

(***************************************************************************)
(* Validation hook (useChipValidation).                                    *)
(***************************************************************************)
\* the validate props of the host: none, a predicate that answers at once
\* (or throws), a predicate that answers with a promise
ValidateFns == {"none", "sync", "async"}

\* the synchronous validate prop run on v: it returns true or false, or throws
SyncPredicate(v) ==
  IF v # << >> /\ v[1] = "a" THEN "true"
  ELSE IF v # << >> /\ v[1] = "A" THEN "throws"
  ELSE "false"

\* how the promise of the asynchronous validate prop may settle
Outcomes == {"true", "false", "rejects"}

\* validate() and validateSync() past the call of the predicate: its result
\* when it returned one (or its promise resolved), false from the catch block
\* when it threw (or its promise rejected)
ResultOrFalsePropagates(outcome) == outcome
ResultOrFalse(outcome) == IF outcome = "true" THEN "true" ELSE "false"

\* validate(value) with the predicate of validatorRef.current: what the call
\* resolves to, "pending" while it awaits the promise of the predicate
Validate(fn, v) ==
  CASE fn = "none" -> "true"
    [] fn = "sync" -> ResultOrFalse(SyncPredicate(v))
    [] fn = "async" -> "pending"

\* validateSync(value) with the predicate of validatorRef.current
ValidateSyncAwaits(fn, v) ==
  CASE fn = "none" -> "true"
    [] fn = "sync" -> ResultOrFalse(SyncPredicate(v))
    [] fn = "async" -> "pending"
ValidateSync(fn, v) ==
  CASE fn = "none" -> "true"
    [] fn = "sync" -> ResultOrFalse(SyncPredicate(v))
    [] fn = "async" -> "true"

\* the values a host validates
ValidatedValues == {<<"a">>, <<"A">>, <<"b">>}

\* the host renders the hook with another validate prop; the effect that
\* stores it in validatorRef runs after the render is committed
Rerender(fn) ==
  /\ fn # props.validate
  /\ props' = [props EXCEPT !.validate = fn]
  /\ pendingEffect' = TRUE
  /\ UNCHANGED <<validatorRef, validations>>

\* useEffect(() => { validatorRef.current = validateFn }, [validateFn])
UpdateValidatorRef ==
  /\ pendingEffect
  /\ validatorRef' = props.validate
  /\ pendingEffect' = FALSE
  /\ UNCHANGED <<props, validations>>

\* a call of the hook, as the host sees it: the predicate it ran, the promise
\* the predicate returned (if any), and what the call gave back
Validation(mode, v, result) ==
  [mode |-> mode, value |-> v, fn |-> validatorRef,
   promise |-> IF validatorRef = "async" THEN "pending" ELSE "none",
   result |-> result]

\* the host calls validate(v)
CallValidate(v) ==
  /\ Len(validations) < MaxValidations
  /\ validations' = Append(validations,
                           Validation("validate", v, Validate(validatorRef, v)))
  /\ UNCHANGED <<props, validatorRef, pendingEffect>>

\* the host calls validateSync(v); the promise of an asynchronous predicate
\* is left without a handler
CallValidateSync(v) ==
  /\ Len(validations) < MaxValidations
  /\ validations' = Append(validations,
                           Validation("validateSync", v, ValidateSync(validatorRef, v)))
  /\ UNCHANGED <<props, validatorRef, pendingEffect>>

\* the promise of the asynchronous predicate of call i settles: validate()
\* resumes after its await
PredicateSettles(i, outcome) ==
  /\ i \in DOMAIN validations
  /\ validations[i].promise = "pending"
  /\ validations' =
       [validations EXCEPT ![i].promise = outcome,
                           ![i].result = IF @ = "pending" THEN ResultOrFalse(outcome)
                                         ELSE @]
  /\ UNCHANGED <<props, validatorRef, pendingEffect>>

\* the chips the host starts with
MockChips ==
  << [id |-> 1, value |-> <<"a">>, label |-> <<"A">>, isValid |-> "true"],
     [id |-> 2, value |-> <<"b">>, label |-> Undefined, isValid |-> "false"] >>

\* the last id generateId() may hand out
MaxId == Len(MockChips) + MaxNewChips

\* the configurations of the host
DefaultProps ==
  [validate |-> "none", normalize |-> "identity", isEqual |-> "strict",
   parse |-> "default", delimiters |-> "default"]

\* the configurations of the host of the control with a search function
PropsSet ==
  {[DefaultProps EXCEPT !.validate = v] : v \in {"none", "sync", "async"}}
  \cup {[DefaultProps EXCEPT !.normalize = "lower"],
        [DefaultProps EXCEPT !.isEqual = "ci"],
        [DefaultProps EXCEPT !.parse = "upper"],
        [DefaultProps EXCEPT !.parse = "minlen"]}

\* the configurations of the host of the control without a search function
PropsSetChips ==
  {[DefaultProps EXCEPT !.validate = v] : v \in {"none", "sync", "async"}}
  \cup {[DefaultProps EXCEPT !.delimiters = "custom"]}

(***************************************************************************)
(* Interaction controller: chip creation.                                  *)
(***************************************************************************)
\* texts whose tokens stay within the bound
WithinTokenBound(t) ==
  LET tokens == SplitByDelimiters(t, DefaultDelimiters \o <<"\n">>)
  IN  \A i \in DOMAIN tokens : Len(tokens[i]) <= MaxTokenLen
TypedTexts == {t \in Texts : WithinTokenBound(t)}
\* the clipboard holds a list that starts with a token (the longest lists
\* with A), or one character
ClipboardTexts ==
  {t \in PastedTexts :
     /\ WithinTokenBound(t)
     /\ Len(t) > 1 => t[1] \notin {",", "\n"}
     /\ Len(t) > 2 => t[1] = "A"}

\* addChipsFromInput: the values the input is cut into
TokensWhole(input) == <<input>>
Tokens(input) ==
  IF ContainsDelimiter(input, Delimiters)
    THEN SplitByDelimiters(input, Delimiters)
    ELSE <<input>>

\* createChip up to the validator, for every value in turn: what the parser
\* returned, unless it returned null or the value is in the chips of the render
RECURSIVE Candidates(_, _)
Candidates(vals, chips) ==
  IF vals = << >> THEN << >>
  ELSE LET parsed == ParseInputFn(Head(vals))
           rest == Candidates(Tail(vals), chips)
       IN  IF parsed.value = NullValue \/ IsDuplicate(parsed.value, chips)
             THEN rest ELSE <<parsed>> \o rest

\* history: the values createChip turned down as duplicates
RECURSIVE Duplicates(_, _)
Duplicates(vals, chips) ==
  IF vals = << >> THEN 0
  ELSE LET parsed == ParseInputFn(Head(vals))
       IN  (IF parsed.value # NullValue /\ IsDuplicate(parsed.value, chips) THEN 1 ELSE 0)
             + Duplicates(Tail(vals), chips)

\* isValid of a new chip: undefined without a validator
\* (hasValidator ? await validateValue(parsed.value) : undefined); outcome is
\* how the promise of an asynchronous predicate has settled
IsValidOfAssumesValid(v, outcome) ==
  IF props.validate = "none" THEN "true"
  ELSE IF Validate(validatorRef, v) = "pending" THEN ResultOrFalse(outcome)
  ELSE Validate(validatorRef, v)
IsValidOf(v, outcome) ==
  IF props.validate = "none" THEN "undefined"
  ELSE IF Validate(validatorRef, v) = "pending" THEN ResultOrFalse(outcome)
  ELSE Validate(validatorRef, v)

\* the chips built from the candidates, with ids from generateId()
NewChips(cands, id0, outcomes) ==
  [j \in 1..Len(cands) |->
     [id |-> id0 + j - 1, value |-> cands[j].value, label |-> cands[j].label,
      isValid |-> IsValidOf(cands[j].value, outcomes[j])]]

\* [...value.slice(0, insertAt), ...newChips, ...value.slice(insertAt)]
InsertAtFront(chips, pos, newChips) == newChips \o chips
InsertChips(chips, pos, newChips) ==
  LET insertAt == IF pos = NULL THEN Len(chips) ELSE pos
  IN  Slice(chips, 0, insertAt) \o newChips \o SliceFrom(chips, insertAt)

\* setInsertPosition(insertPosition + newChips.length), when not null
Advance(pos, k) == IF pos # NULL THEN pos + k ELSE pos

RECURSIVE Reserved(_)
Reserved(cs) == IF cs = << >> THEN 0 ELSE Len(Head(cs).cands) + Reserved(Tail(cs))

\* generateId() still has ids for k more chips
IdsFit(k) == nextId + Reserved(commits) + k - 1 <= MaxId

\* whether the commit waits for the asynchronous validator
Suspends(cands) ==
  cands # << >> /\ props.validate # "none" /\ validatorRef = "async"

NoOutcomes == [j \in 1..MaxNewChips |-> "undefined"]

\* a commit of the candidates read from the chips of this render: the part of
\* addChipsFromInput and of processSuggestionSelection after the parsing
Commit(cands, dups, ev, via) ==
  /\ IdsFit(Len(cands))
  /\ IF cands = << >>
       THEN /\ inputValue' = << >>
            /\ lastOp' = [ev |-> ev, called |-> FALSE, k |-> 0, dups |-> dups]
            /\ UNCHANGED <<value, insertPosition, nextId, commits>>
       ELSE IF Suspends(cands)
         THEN /\ Len(commits) < MaxRacing
              /\ commits' = Append(commits,
                   [base |-> value, pos |-> insertPosition, cands |-> cands, via |-> via])
              /\ lastOp' = [ev |-> ev, called |-> FALSE, k |-> 0, dups |-> dups]
              /\ UNCHANGED <<value, inputValue, insertPosition, nextId>>
         ELSE /\ value' = InsertChips(value, insertPosition,
                                      NewChips(cands, nextId, NoOutcomes))
              /\ insertPosition' = Advance(insertPosition, Len(cands))
              /\ inputValue' = << >>
              /\ nextId' = nextId + Len(cands)
              /\ lastOp' = [ev |-> ev, called |-> TRUE, k |-> Len(cands), dups |-> dups]
              /\ UNCHANGED commits

\* addChipsFromInput(input).  When splitByDelimiters throws, the promise is
\* rejected before anything is done, and every caller drops the rejection.
AddChipsFromInput(input, ev) ==
  IF ContainsDelimiter(input, Delimiters) /\ SplitThrows(Delimiters)
    THEN /\ lastOp' = [ev |-> ev, called |-> FALSE, k |-> 0, dups |-> 0]
         /\ UNCHANGED <<value, inputValue, insertPosition, nextId, commits>>
    ELSE Commit(Candidates(Tokens(input), value), Duplicates(Tokens(input), value),
                ev, "input")

\* processSuggestionSelection(suggestion), under handleSuggestionSelectInternal
ProcessSuggestionSelectionNoLabel(suggestion, ev) ==
  LET dup == IsDuplicate(suggestion.value, value)
      cands == IF dup THEN << >>
               ELSE <<[value |-> suggestion.value, label |-> Undefined]>>
  IN  /\ Commit(cands, IF dup THEN 1 ELSE 0, ev, "select")
      /\ isSelectingRef' = TRUE
      /\ selectTimers' = IF Suspends(cands) THEN selectTimers ELSE selectTimers + 1
      /\ UNCHANGED <<props, hookVars, utilVars>>
ProcessSuggestionSelection(suggestion, ev) ==
  LET dup == IsDuplicate(suggestion.value, value)
      cands == IF dup THEN << >>
               ELSE <<[value |-> suggestion.value, label |-> suggestion.label]>>
  IN  /\ Commit(cands, IF dup THEN 1 ELSE 0, ev, "select")
      /\ isSelectingRef' = TRUE
      /\ selectTimers' = IF Suspends(cands) THEN selectTimers ELSE selectTimers + 1
      /\ UNCHANGED <<props, hookVars, utilVars>>

\* the validator has answered for every candidate of commit i: the rest of
\* addChipsFromInput / processSuggestionSelection runs, with the chips and the
\* cursor of the render the commit started in
Settle(i, outcomes) ==
  /\ i \in DOMAIN commits
  /\ LET c == commits[i]
         k == Len(c.cands)
     IN  /\ value' = InsertChips(c.base, c.pos, NewChips(c.cands, nextId, outcomes))
         /\ insertPosition' = IF c.pos # NULL THEN Advance(c.pos, k) ELSE insertPosition
         /\ inputValue' = << >>
         /\ nextId' = nextId + k
         /\ commits' = SubSeq(commits, 1, i - 1) \o SubSeq(commits, i + 1, Len(commits))
         /\ selectTimers' = IF c.via = "select" THEN selectTimers + 1 ELSE selectTimers
         /\ lastOp' = [ev |-> "settle", called |-> TRUE, k |-> k, dups |-> 0]
  /\ UNCHANGED <<props, hookVars, utilVars, isSelectingRef, searchVars>>

\* setTimeout(() => { isSelectingRef.current = false; ... }, 0)
SelectTimeout ==
  /\ selectTimers > 0
  /\ selectTimers' = selectTimers - 1
  /\ isSelectingRef' = FALSE
  /\ UNCHANGED <<props, hookVars, utilVars, value, inputValue, insertPosition, nextId, commits, lastOp,
                 searchVars>>

(***************************************************************************)
(* Interaction controller: event handlers.                                 *)
(***************************************************************************)
\* history: the event neither committed nor deleted anything (its name is
\* not kept)
Plain(ev) == [ev |-> "none", called |-> FALSE, k |-> 0, dups |-> 0]

\* useEffect(() => { if (value.length === 0) clearSuggestions() }, [value.length])
ClearWhenEmptied ==
  IF Len(value') = 0 /\ Len(value) # 0 THEN Clear ELSE UNCHANGED searchVars

\* computeLeftPosition(currentPosition, chipsLength)
ComputeLeftPosition(currentPosition, chipsLength) ==
  IF currentPosition = NULL THEN chipsLength - 1
  ELSE IF currentPosition > 0 THEN currentPosition - 1 ELSE currentPosition

\* computeRightPosition(currentPosition, chipsLength)
ComputeRightPositionToLength(currentPosition, chipsLength) ==
  IF currentPosition < chipsLength THEN currentPosition + 1 ELSE NULL
ComputeRightPosition(currentPosition, chipsLength) ==
  IF currentPosition < chipsLength - 1 THEN currentPosition + 1 ELSE NULL

\* value.filter((chip) => chip.id !== id)
RECURSIVE Without(_, _)
Without(chips, id) ==
  IF chips = << >> THEN << >>
  ELSE (IF Head(chips).id # id THEN <<Head(chips)>> ELSE << >>) \o Without(Tail(chips), id)

\* handleChipDelete(id): the delete button of a chip
HandleChipDelete(id) ==
  /\ \E i \in DOMAIN value : value[i].id = id
  /\ value' = Without(value, id)
  /\ lastOp' = [ev |-> "delete", called |-> TRUE, k |-> 0, dups |-> 0]
  /\ ClearWhenEmptied
  /\ UNCHANGED <<props, hookVars, utilVars, inputValue, insertPosition, isSelectingRef, selectTimers,
                 nextId, commits>>

\* handleInputChange(e)
HandleInputChange(newValue) ==
  /\ newValue # inputValue
  /\ IF ContainsDelimiter(newValue, Delimiters)
       THEN /\ AddChipsFromInput(newValue, "change")
            /\ UNCHANGED searchVars
       ELSE /\ inputValue' = newValue
            /\ Search(newValue)
            /\ lastOp' = Plain("change")
            /\ UNCHANGED <<value, insertPosition, nextId, commits>>
  /\ UNCHANGED <<props, hookVars, utilVars, isSelectingRef, selectTimers>>

\* hasDelimiter || hasNewline
HasSeparator(t) ==
  ContainsDelimiter(t, Delimiters) \/ \E i \in DOMAIN t : t[i] = "\n"

\* handlePaste(e).  Unless the handler calls e.preventDefault(), the browser
\* inserts the text into the input (at its end), which fires the change event.
HandlePaste(pastedText) ==
  LET allDelimiters == Delimiters \o <<"\n">>
      values == SplitByDelimiters(pastedText, allDelimiters)
  IN  IF HasSeparator(pastedText)
        THEN /\ IF ~SplitThrows(allDelimiters) /\ Len(values) > 0
                  THEN AddChipsFromInput(Join(values, Delimiters[1]), "paste")
                  ELSE /\ lastOp' = Plain("paste")
                       /\ UNCHANGED <<value, inputValue, insertPosition, nextId,
                                      commits>>
             /\ UNCHANGED <<props, hookVars, utilVars, isSelectingRef, selectTimers, searchVars>>
        ELSE IF pastedText = << >>
          THEN /\ lastOp' = Plain("paste")
               /\ UNCHANGED <<props, hookVars, utilVars, value, inputValue, insertPosition, isSelectingRef,
                              selectTimers, nextId, commits, searchVars>>
          ELSE /\ inputValue \o pastedText \in TypedTexts
               /\ HandleInputChange(inputValue \o pastedText)

\* handleBlur(e); inside: the focus goes to an element of the container
HandleBlurUnguarded(inside) ==
  /\ IF inside
       THEN /\ lastOp' = [ev |-> "blur", called |-> FALSE, k |-> 0, dups |-> 0]
            /\ UNCHANGED <<value, inputValue, insertPosition, nextId, commits, searchVars>>
       ELSE /\ IF Trim(inputValue) # << >>
                 THEN AddChipsFromInput(inputValue, "blur")
                 ELSE /\ lastOp' = [ev |-> "blur", called |-> FALSE, k |-> 0, dups |-> 0]
                      /\ UNCHANGED <<value, inputValue, insertPosition, nextId, commits>>
            /\ Close
  /\ UNCHANGED <<props, hookVars, utilVars, isSelectingRef, selectTimers>>
HandleBlur(inside) ==
  /\ IF isSelectingRef \/ inside
       THEN /\ lastOp' = [ev |-> "blur", called |-> FALSE, k |-> 0, dups |-> 0]
            /\ UNCHANGED <<value, inputValue, insertPosition, nextId, commits, searchVars>>
       ELSE /\ IF Trim(inputValue) # << >>
                 THEN AddChipsFromInput(inputValue, "blur")
                 ELSE /\ lastOp' = [ev |-> "blur", called |-> FALSE, k |-> 0, dups |-> 0]
                      /\ UNCHANGED <<value, inputValue, insertPosition, nextId, commits>>
            /\ Close
  /\ UNCHANGED <<props, hookVars, utilVars, isSelectingRef, selectTimers>>

\* handleContainerClick(e); onContainer: the target is the container itself
HandleContainerClick(onContainer) ==
  /\ insertPosition' = IF onContainer THEN NULL ELSE insertPosition
  /\ lastOp' = Plain("container")
  /\ UNCHANGED <<props, hookVars, utilVars, value, inputValue, isSelectingRef, selectTimers, nextId,
                 commits, searchVars>>

\* handleContainerKeyDown(e), the target being the container itself
HandleContainerKeyDown(key) ==
  /\ insertPosition' = IF key \in {"Enter", " "} THEN NULL ELSE insertPosition
  /\ lastOp' = Plain("container")
  /\ UNCHANGED <<props, hookVars, utilVars, value, inputValue, isSelectingRef, selectTimers, nextId,
                 commits, searchVars>>

\* handleChipClick(id)
HandleChipClick(id) ==
  /\ \E i \in DOMAIN value : value[i].id = id
  /\ insertPosition' = (CHOOSE i \in DOMAIN value : value[i].id = id) - 1
  /\ lastOp' = Plain("chipClick")
  /\ UNCHANGED <<props, hookVars, utilVars, value, inputValue, isSelectingRef, selectTimers, nextId,
                 commits, searchVars>>

\* handleSelect(suggestion) of the engine, with the controller's onSelect
HandleSuggestionSelect(i) ==
  /\ isVisible
  /\ HandleSelect(i)
  /\ ProcessSuggestionSelection(suggestions[i], "select")

\* handleHighlight(index): the pointer hovers over a suggestion
HandleSuggestionHighlight(i) ==
  /\ isVisible
  /\ i + 1 \in DOMAIN suggestions
  /\ HandleHighlight(i)
  /\ UNCHANGED chipVars

\* the keys the input receives
InputKeys == Keys \cup {"ArrowLeft", "ArrowRight", "Backspace", ","}

\* handleSubmitKey and handleDelimiterKey get to addChipsFromInput
KeyCommits(key) ==
  /\ key \in {"Enter", "Tab"} \cup Range(Delimiters)
  /\ Trim(inputValue) # << >>

\* handleBackspaceKey gets to handleChipDelete
DeleteIndex(pos, len) == IF pos = NULL THEN len - 1 ELSE pos - 1

BackspaceDeletes(cursorPos) ==
  /\ cursorPos = 0 /\ inputValue = << >> /\ Len(value) > 0
  /\ DeleteIndex(insertPosition, Len(value)) >= 0
  /\ DeleteIndex(insertPosition, Len(value)) < Len(value)

\* handleEscapeKey, the dropdown not being visible: setInsertPosition(null)
HandleEscapeKeyKeepsGap == UNCHANGED insertPosition
HandleEscapeKey == insertPosition' = NULL

\* the switch of handleKeyDown, for a key the engine did not consume
KeySwitch(key, cursorPos) ==
  LET isAtStart == cursorPos = 0
      isAtEnd == cursorPos = Len(inputValue)
      hasChips == Len(value) > 0
  IN  CASE key = "ArrowLeft" /\ isAtStart /\ hasChips ->
             /\ insertPosition' = ComputeLeftPosition(insertPosition, Len(value))
             /\ lastOp' = Plain(key)
             /\ UNCHANGED <<value, inputValue, nextId, commits>>
        [] key = "ArrowRight" /\ isAtEnd /\ insertPosition # NULL ->
             /\ insertPosition' = ComputeRightPosition(insertPosition, Len(value))
             /\ lastOp' = Plain(key)
             /\ UNCHANGED <<value, inputValue, nextId, commits>>
        [] key = "Backspace" /\ BackspaceDeletes(cursorPos) ->
             /\ value' = Without(value,
                           value[DeleteIndex(insertPosition, Len(value)) + 1].id)
             /\ insertPosition' =
                  IF insertPosition # NULL /\ insertPosition > 0
                    THEN insertPosition - 1 ELSE insertPosition
             /\ lastOp' = [ev |-> key, called |-> TRUE, k |-> 0, dups |-> 0]
             /\ UNCHANGED <<inputValue, nextId, commits>>
        [] KeyCommits(key) -> AddChipsFromInput(inputValue, key)
        [] key = "Escape" /\ ~isVisible /\ insertPosition # NULL ->
             /\ HandleEscapeKey
             /\ lastOp' = Plain(key)
             /\ UNCHANGED <<value, inputValue, nextId, commits>>
        [] OTHER ->
             /\ lastOp' = Plain(key)
             /\ UNCHANGED <<value, inputValue, insertPosition, nextId, commits>>

\* handleKeyDown(e) of the input; cursorPos is inputRef.current.selectionStart
HandleKeyDown(key, cursorPos) ==
  /\ cursorPos \in 0..Len(inputValue)
  /\ IF SuggestionsHandled(key)
       THEN /\ SuggestionsKeyDown(key)
            /\ IF key \in {"Enter", "Tab"}
                 THEN ProcessSuggestionSelection(suggestions[highlightedIndex + 1],
                                                 "select")
                 ELSE /\ lastOp' = Plain(key)
                      /\ UNCHANGED <<props, hookVars, utilVars, value, inputValue, insertPosition,
                                     isSelectingRef, selectTimers, nextId, commits>>
       ELSE /\ KeySwitch(key, cursorPos)
            /\ UNCHANGED <<props, hookVars, utilVars, isSelectingRef, selectTimers>>
            /\ IF KeyCommits(key) \/ (key = "Escape" /\ isVisible)
                 THEN Close
                 ELSE IF key = "Backspace" THEN ClearWhenEmptied
                 ELSE SuggestionsKeyDown(key)

(***************************************************************************)
(* The control in its host, which applies every onChange.                  *)
(***************************************************************************)
Mounted(chips, configs) ==
  /\ props \in configs
  /\ validatorRef = props.validate
  /\ pendingEffect = FALSE
  /\ validations = << >>
  /\ value = chips
  /\ inputValue = << >>
  /\ insertPosition = NULL
  /\ isSelectingRef = FALSE
  /\ selectTimers = 0
  /\ nextId = Len(MockChips) + 1
  /\ commits = << >>
  /\ lastOp = Plain("mount")
  /\ typed = NothingTyped

\* the control without a search function, over the chips of the host
InitChips ==
  InitSearch /\ ~hasOnSearch /\ Mounted(MockChips, PropsSetChips) /\ call = NoCall

\* the events of the control wait while MaxPending commits are suspended
PendingBounded == Len(commits') <= MaxPending

NextChips ==
  \/ \E t \in TypedTexts : HandleInputChange(t) /\ PendingBounded /\ UNCHANGED typed
  \/ \E key \in InputKeys, cursorPos \in 0..Len(inputValue) :
        HandleKeyDown(key, cursorPos) /\ PendingBounded /\ UNCHANGED typed
  \/ \E t \in ClipboardTexts : HandlePaste(t) /\ PendingBounded /\ UNCHANGED typed
  \/ \E inside \in BOOLEAN : HandleBlur(inside) /\ PendingBounded /\ UNCHANGED typed
  \/ \E onContainer \in BOOLEAN : HandleContainerClick(onContainer) /\ UNCHANGED typed
  \/ \E key \in {"Enter", " ", "x"} : HandleContainerKeyDown(key) /\ UNCHANGED typed
  \/ \E id \in 1..MaxId : HandleChipClick(id) /\ UNCHANGED typed
  \/ \E id \in 1..MaxId : HandleChipDelete(id) /\ UNCHANGED typed
  \/ \E i \in DOMAIN commits : \E o \in [1..Len(commits[i].cands) -> Outcomes] :
        Settle(i, o) /\ UNCHANGED typed

SpecChips == InitChips /\ [][NextChips]_vars

\* history: whether the last event of the control was the Escape key
KeyPressed(key) ==
  [NothingTyped EXCEPT !.by = IF key = "Escape" THEN key ELSE "none"]

\* the control with a search function, starting without chips
Init == InitSearch /\ hasOnSearch /\ Mounted(<< >>, PropsSet) /\ call = NoCall

Next ==
  \/ \E t \in TypedTexts :
        /\ callCount < MaxTypedSearches
        /\ HandleInputChange(t) /\ PendingBounded
        /\ typed' = NothingTyped
  \/ \E key \in InputKeys, cursorPos \in 0..Len(inputValue) :
        HandleKeyDown(key, cursorPos) /\ PendingBounded /\ typed' = KeyPressed(key)
  \/ \E t \in ClipboardTexts :
        /\ HasSeparator(t) \/ callCount < MaxTypedSearches
        /\ HandlePaste(t) /\ PendingBounded
        /\ typed' = NothingTyped
  \/ \E inside \in BOOLEAN : HandleBlur(inside) /\ PendingBounded /\ typed' = NothingTyped
  \/ \E onContainer \in BOOLEAN : HandleContainerClick(onContainer) /\ typed' = NothingTyped
  \/ \E key \in {"Enter", " ", "x"} : HandleContainerKeyDown(key) /\ typed' = NothingTyped
  \/ \E id \in 1..MaxId : HandleChipClick(id) /\ typed' = NothingTyped
  \/ \E id \in 1..MaxId : HandleChipDelete(id) /\ typed' = NothingTyped
  \/ \E i \in DOMAIN suggestions :
        HandleSuggestionSelect(i) /\ PendingBounded /\ typed' = NothingTyped
  \/ \E i \in 0..(MaxResults - 1) : HandleSuggestionHighlight(i)
  \/ \E i \in DOMAIN commits : \E o \in [1..Len(commits[i].cands) -> Outcomes] :
        Settle(i, o) /\ typed' = NothingTyped
  \/ SelectTimeout /\ typed' = NothingTyped
  \/ Tick /\ UNCHANGED chipVars
  \/ \E t \in timers : TimerFires(t) /\ UNCHANGED chipVars
  \/ \E id \in DOMAIN requests, n \in 0..MaxResults : Resolve(id, n) /\ UNCHANGED chipVars
  \/ \E id \in DOMAIN requests : Reject(id, "Error") /\ UNCHANGED chipVars

Spec == Init /\ [][Next]_vars

\* the validation hook on its own, under a host that calls it and replaces
\* its validate prop
ValidationProps == {[DefaultProps EXCEPT !.validate = fn] : fn \in ValidateFns}

InitValidation ==
  InitSearch /\ ~hasOnSearch /\ Mounted(<< >>, ValidationProps) /\ call = NoCall

\* the rest of the control is not used
HookAlone ==
  UNCHANGED <<utilVars, typed, value, inputValue, insertPosition, isSelectingRef, selectTimers,
              nextId, commits, lastOp, searchVars>>

NextValidation ==
  \/ \E fn \in ValidateFns : Rerender(fn) /\ HookAlone
  \/ UpdateValidatorRef /\ HookAlone
  \/ \E v \in ValidatedValues : CallValidate(v) /\ HookAlone
  \/ \E v \in ValidatedValues : CallValidateSync(v) /\ HookAlone
  \/ \E i \in DOMAIN validations, outcome \in Outcomes :
        PredicateSettles(i, outcome) /\ HookAlone

SpecValidation == InitValidation /\ [][NextValidation]_vars

(***************************************************************************)
(* The control under a user who only enters text, from no chips.           *)
(***************************************************************************)
\* the user types the character c with the caret at the end of the text: the
\* keydown event and, unless handleDelimiterKey prevents the default, the
\* change event of the input with the character appended
TypeKey(c) ==
  /\ Len(typed.text) < MaxTypedKeys
  /\ typed' = [typed EXCEPT !.text = @ \o <<c>>, !.events = @ + 1,
                             !.last = <<c>>, !.by = "key"]
  /\ IF ~SuggestionsHandled(c) /\ KeyCommits(c)
       THEN HandleKeyDown(c, Len(inputValue))
       ELSE /\ c \notin Range(Delimiters) => inputValue \o <<c>> \in TypedTexts
            /\ HandleInputChange(inputValue \o <<c>>)

\* the characters the user enters
TypedChars == {"a", "A", ","}

\* the configurations of the host of the control the user enters text into
PropsSetTyping ==
  {p \in PropsSet : p.normalize = "identity" /\ p.parse # "upper"}

\* the clipboard of the user: the texts of ClipboardTexts in these characters
\* and newlines, and a list of a token the parser with a minimal length
\* accepts and one it returns null for
PastedLists ==
  ((ClipboardTexts \cap SeqsUpTo(TypedChars \cup {"\n"}, MaxTextLen)) \ {<< >>})
    \cup {<<"a", "a", "a", ",", "A">>}

\* the texts that get into the input in one change event
InsertedTexts ==
  {t \in SeqsUpTo(TypedChars, MaxTextLen) :
     /\ Len(t) > 1
     /\ WithinTokenBound(t)
     /\ ContainsDelimiter(t, DefaultDelimiters) \/ Len(t) <= MaxTypedLen}

\* a text gets into the empty input at once (dropped, completed by the
\* browser): one change event
InsertText(t) ==
  /\ Len(typed.text) + Len(t) <= MaxTypedKeys
  /\ inputValue = << >>
  /\ typed' = [typed EXCEPT !.text = @ \o t, !.events = @ + 1,
                             !.last = t, !.by = "change"]
  /\ HandleInputChange(t)

\* the user pastes the text t
PasteText(t) ==
  /\ Len(typed.text) + Len(t) <= MaxTypedKeys
  /\ typed' = [typed EXCEPT !.text = @ \o t, !.pastes = @ + 1,
                             !.last = t, !.by = "paste"]
  /\ HandlePaste(t)

\* the user presses an arrow key, the text caret being at cursorPos
MoveCaret(key, cursorPos) ==
  /\ HandleKeyDown(key, cursorPos)
  /\ typed' = [typed EXCEPT !.last = << >>, !.by = key]

InitTyping ==
  InitSearch /\ ~hasOnSearch /\ Mounted(<< >>, PropsSetTyping) /\ call = NoCall

NextTyping ==
  \/ \E c \in TypedChars : TypeKey(c) /\ PendingBounded
  \/ \E t \in InsertedTexts : InsertText(t) /\ PendingBounded
  \/ \E t \in PastedLists : PasteText(t) /\ PendingBounded
  \/ \E key \in {"ArrowLeft", "ArrowRight"}, cursorPos \in 0..Len(inputValue) :
        MoveCaret(key, cursorPos)
  \/ \E i \in DOMAIN commits : \E o \in [1..Len(commits[i].cands) -> Outcomes] :
        Settle(i, o) /\ UNCHANGED typed

SpecTyping == InitTyping /\ [][NextTyping]_vars

\* the control without a search function, starting without chips, under a
\* user who goes on while commits are suspended on the validator: up to
\* MaxRacing of them at a time
InitRacing ==
  InitSearch /\ ~hasOnSearch /\ Mounted(<< >>, PropsSet) /\ call = NoCall

NextRacing ==
  \/ \E t \in TypedTexts : HandleInputChange(t) /\ typed' = NothingTyped
  \/ \E key \in InputKeys, cursorPos \in 0..Len(inputValue) :
        HandleKeyDown(key, cursorPos) /\ typed' = KeyPressed(key)
  \/ \E t \in ClipboardTexts : HandlePaste(t) /\ typed' = NothingTyped
  \/ \E inside \in BOOLEAN : HandleBlur(inside) /\ typed' = NothingTyped
  \/ \E id \in 1..MaxId : HandleChipDelete(id) /\ typed' = NothingTyped
  \/ \E i \in DOMAIN commits : \E o \in [1..Len(commits[i].cands) -> Outcomes] :
        Settle(i, o) /\ typed' = NothingTyped

SpecRacing == InitRacing /\ [][NextRacing]_vars

(***************************************************************************)
(* The pure functions of src/utils/chip-utils, called on their own.        *)
(***************************************************************************)
\* the inputs of the calls
SplitInputChars == {"a", " ", ",", "-", "|"}
SplitInputs == SeqsUpTo(SplitInputChars, MaxTextLen)

\* the delimiter lists of the calls: lists of one-character delimiters, and
\* lists of one longer delimiter
DelimiterChars == {",", "-", "|"}
DelimiterStringLists ==
  {[k \in DOMAIN cs |-> <<cs[k]>>] : cs \in SeqsUpTo(DelimiterChars, MaxDelimiters)}
    \cup {<<d>> : d \in SeqsUpTo(DelimiterChars, MaxDelimiterLen) \ {<< >>}}

InitUtils ==
  /\ InitSearch /\ ~hasOnSearch /\ NoController
  /\ call \in {[NoCall EXCEPT !.input = input, !.delimiters = delimiters] :
                 input \in SplitInputs, delimiters \in DelimiterStringLists}

\* nothing but the call changes
UtilsAlone ==
  UNCHANGED <<props, hookVars, typed, value, inputValue, insertPosition, isSelectingRef,
              selectTimers, nextId, commits, lastOp, searchVars>>

\* containsDelimiter(input, delimiters)
CallContainsDelimiter ==
  /\ call.fn = "none"
  /\ call' = [call EXCEPT !.fn = "containsDelimiter",
                          !.result = ContainsDelimiterString(call.input, call.delimiters)]
  /\ UtilsAlone

\* splitByDelimiters(input, delimiters)
CallSplitByDelimiters ==
  /\ call.fn = "none"
  /\ LET out == SplitByDelimiterStrings(call.input, call.delimiters)
     IN  call' = [call EXCEPT !.fn = "splitByDelimiters",
                              !.throws = out.throws, !.result = out.result]
  /\ UtilsAlone

NextUtils ==
  \/ CallContainsDelimiter
  \/ CallSplitByDelimiters

SpecUtils == InitUtils /\ [][NextUtils]_vars

(***************************************************************************)
(* Claims about the suggestion engine.                                     *)
(***************************************************************************)
\* request id resolves successfully in this step
Resolves(id) ==
  /\ id \in DOMAIN requests
  /\ requests[id].status = "pending"
  /\ requests'[id].status = "resolved"

\* C1: only the most recently issued search may change suggestions, isVisible
\* or highlightedIndex: the successful resolution of a request whose search()
\* call is no longer the last one leaves all three unchanged, also when the
\* later call carries the same trimmed query.
OnlyLatestSearchMutates ==
  [][\A id \in DOMAIN requests :
       (Resolves(id) /\ requests[id].gen # callCount)
         => UNCHANGED <<suggestions, isVisible, highlightedIndex>>]_vars

\* search(a) then search(b), different trimmed queries, b the last call,
\* b's request already resolved
SupersededBy(a, b) ==
  /\ requests[a].gen < requests[b].gen
  /\ requests[b].gen = callCount
  /\ requests[a].query # requests[b].query
  /\ requests[b].status = "resolved"

\* C2: stale-result discard: when a's request resolves after the request of
\* the later search b (different trimmed query) has resolved, the suggestion
\* list stays what it was (b's results) and holds nothing of a's results.
StaleResultDiscarded ==
  [][\A a, b \in DOMAIN requests :
       (Resolves(a) /\ SupersededBy(a, b))
         => /\ suggestions' = suggestions
            /\ \A i \in DOMAIN suggestions' : suggestions'[i].from # a]_vars

StaleResultDiscardedWitness ==
  \E a, b \in DOMAIN requests :
    /\ SupersededBy(a, b)
    /\ requests[a].status = "resolved"
    /\ requests[a].late
    /\ requests[a].n > 0
    /\ requests[b].n > 0
    /\ suggestions = ResultsOf(b, requests[b].n)

\* the requests issued for the burst of search() calls that request id ends
BurstRequests(id) ==
  {j \in DOMAIN requests :
     /\ requests[j].gen > requests[id].gen - requests[id].burst
     /\ requests[j].gen <= requests[id].gen}

\* the external search was invoked for the last call of a burst only, once,
\* and after the whole delay
CoalescedRequests ==
  \A id \in DOMAIN requests :
    /\ requests[id].latest
    /\ requests[id].waited >= DebounceTicks
    /\ BurstRequests(id) = {id}

\* a timer leaves the table only when a later search() call cancels it, when
\* the hook is unmounted, or when it fires, and then onSearch gets the trimmed
\* argument of its call
TimerConsumed ==
  \A t \in timers :
    (\A u \in timers' : u.id # t.id)
      => \/ callCount' > callCount
         \/ mounted /\ ~mounted'
         \/ /\ Len(requests') = Len(requests) + 1
            /\ requests'[Len(requests')].gen = t.id
            /\ requests'[Len(requests')].query = Trim(t.raw)

\* C3: debounce coalescing: for a burst of search() calls with non-empty
\* trimmed queries, each arriving before the previous timer has expired,
\* onSearch is invoked exactly once, with the trimmed last query, and not
\* before the debounce delay has elapsed after the last call.
DebounceCoalescing == []CoalescedRequests /\ [][TimerConsumed]_vars

DebounceCoalescingWitness ==
  \E id \in DOMAIN requests :
    /\ requests[id].burst >= 2
    /\ requests[id].gen = callCount
    /\ requests[id].query = lastQueryRef
    /\ requests[id].waited = DebounceTicks
    /\ BurstRequests(id) = {id}
    /\ Len(requests) = 1

(***************************************************************************)
(* Claims about the chip store and the insertion cursor.                   *)
(***************************************************************************)
\* the chips of a sequence
ChipsOf(chips) == {chips[i] : i \in DOMAIN chips}

\* the step calls onChange with chips it has just created
CreatesChips == nextId' > nextId

\* C4: every sequence a commit passes to onChange is computed from the chips
\* the store holds at that moment: it keeps every chip of the store (drops
\* none that was added in the meantime) and, apart from the chips the commit
\* has created, holds only chips of the store (none deleted in the meantime).
CommitOnLatestChips ==
  [][CreatesChips =>
       /\ ChipsOf(value) \subseteq ChipsOf(value')
       /\ \A c \in ChipsOf(value') : c.id < nextId => c \in ChipsOf(value)]_vars

\* C5: the sequence passed to onChange never holds two chips created by the
\* same operation whose normalized values are equal under isEqual.
NoEqualNewChips ==
  [][\A i, j \in DOMAIN value' :
        (i < j /\ value'[i].id >= nextId /\ value'[j].id >= nextId)
          => ~IsEqual(Normalize(value'[i].value), Normalize(value'[j].value))]_vars

\* some chip of the store has a normalized value equal to that of v
InStore(v) ==
  \E i \in DOMAIN value :
     IF props.isEqual = "ci"
       THEN ToLowerCase(value[i].value) = ToLowerCase(v)
       ELSE IF props.normalize = "lower"
         THEN ToLowerCase(value[i].value) = ToLowerCase(v)
         ELSE value[i].value = v

\* the step neither calls onChange nor creates a chip nor starts a commit
NothingCommitted ==
  /\ value' = value
  /\ nextId' = nextId
  /\ commits' = commits
  /\ ~lastOp'.called

\* the step is a key press that commits the pending text
KeyCommitsText(key) ==
  /\ key \in {"Enter", "Tab", ","}
  /\ ~SuggestionsHandled(key)
  /\ Trim(inputValue) # << >>
  /\ lastOp'.ev = key
  /\ \E cursorPos \in 0..Len(inputValue) : HandleKeyDown(key, cursorPos)

\* the step is a blur that commits the pending text
BlurCommitsText ==
  /\ ~isSelectingRef
  /\ Trim(inputValue) # << >>
  /\ lastOp'.ev = "blur"
  /\ HandleBlur(FALSE)

\* the step selects suggestion i, by the pointer or by Enter or Tab
Selects(i) ==
  /\ lastOp'.ev = "select"
  /\ \/ HandleSuggestionSelect(i)
     \/ /\ i = highlightedIndex + 1
        /\ \E key \in {"Enter", "Tab"}, cursorPos \in 0..Len(inputValue) :
              SuggestionsHandled(key) /\ HandleKeyDown(key, cursorPos)

\* the step commits a single token whose value is that of a chip of the store
CommitsDuplicate ==
  \/ /\ Trim(inputValue) # << >>
     /\ InStore(ParseInputFn(inputValue).value)
     /\ \/ \E key \in InputKeys : KeyCommitsText(key)
        \/ BlurCommitsText
  \/ \E i \in DOMAIN suggestions : InStore(suggestions[i].value) /\ Selects(i)

\* C6: committing a single token (Enter, Tab, delimiter key, blur, suggestion
\* selection) whose value is normalized-equal to that of a chip of the store
\* creates no chip and does not call onChange, whatever normalize and isEqual
\* are; and a chip created by a commit of a single token is the only chip of
\* the resulting sequence with its normalized value.
DuplicateCommitIsIdle ==
  [][/\ ~NothingCommitted => ~CommitsDuplicate
     /\ (nextId' = nextId + 1) =>
          \A i, j \in DOMAIN value' :
             (value'[i].id = nextId /\ j # i)
               => ~IsEqual(Normalize(value'[i].value), Normalize(value'[j].value))]_vars

DuplicateCommitIsIdleWitness ==
  /\ props.isEqual = "ci"
  /\ lastOp = [ev |-> "select", called |-> FALSE, k |-> 0, dups |-> 1]
  /\ \E i \in DOMAIN value : value[i].value = <<"a">>
  /\ inputValue = << >>

\* the step is the completion of a commit that waited for the validator
Settles(i) ==
  /\ i \in DOMAIN commits
  /\ Len(commits') < Len(commits)
  /\ commits' = SubSeq(commits, 1, i - 1) \o SubSeq(commits, i + 1, Len(commits))

\* value' is existing[0..g) ++ the k chips just created ++ existing[g..end),
\* a gap past the end counting as the end (as Array.prototype.slice does)
InsertedAt(existing, g, k) ==
  LET at == IF g = NULL \/ g > Len(existing) THEN Len(existing) ELSE g
  IN  /\ Len(value') = Len(existing) + k
      /\ \A i \in 1..Len(existing) :
            value'[IF i <= at THEN i ELSE i + k] = existing[i]
      /\ \A j \in 1..k : value'[at + j].id = nextId + j - 1

\* the cursor after a commit that read gap g and created k chips
CursorAfter(g, k) ==
  insertPosition' = IF g = NULL THEN insertPosition ELSE g + k

InsertPositionInRange ==
  insertPosition = NULL \/ (insertPosition >= 0 /\ insertPosition <= Len(value))

\* the chips before the caret: all of them when AtEnd, and when the input is
\* rendered after the last chip
ChipsBeforeCaret ==
  IF insertPosition = NULL \/ insertPosition > Len(value)
    THEN Len(value) ELSE insertPosition

\* the sequence without its n-th chip
WithoutNth(chips, n) == SubSeq(chips, 1, n - 1) \o SubSeq(chips, n + 1, Len(chips))

\* C9: with at least one chip before the caret, Backspace pressed with an
\* empty pending buffer and the text caret at 0 removes exactly the chip
\* immediately before the caret gap and keeps all others in order; with a
\* non-empty buffer, or at AtGap(0), Backspace removes no chip.
BackspaceDeletesPreceding ==
  [][\A cursorPos \in 0..MaxTypedLen :
        (cursorPos <= Len(inputValue) /\ HandleKeyDown("Backspace", cursorPos))
          => IF inputValue = << >> /\ ChipsBeforeCaret >= 1
               THEN value' = WithoutNth(value, ChipsBeforeCaret)
               ELSE value' = value]_vars

\* what the configured parser makes of the pending text
ParserAccepts ==
  IF props.parse = "minlen" THEN Len(inputValue) >= MinParseLen
  ELSE Trim(inputValue) # << >>
ParserValue ==
  CASE props.parse = "default" -> Trim(inputValue)
    [] props.parse = "upper" -> ToUpperCase(Trim(inputValue))
    [] props.parse = "minlen" -> inputValue

\* the step is a commit of the pending text by Enter, Tab or blur
SubmitsText ==
  \/ \E key \in {"Enter", "Tab"} : KeyCommitsText(key)
  \/ BlurCommitsText

\* the step passes to onChange a sequence with exactly one new chip, of value v
OneNewChip(v) ==
  /\ lastOp'.called
  /\ nextId' = nextId + 1
  /\ Cardinality({i \in DOMAIN value' : value'[i].id >= nextId}) = 1
  /\ \A i \in DOMAIN value' : value'[i].id >= nextId => value'[i].value = v

\* committing a pending text that the parser accepts and that is no duplicate,
\* by Enter, Tab or blur: one onChange call, one new chip, the parser's value
\* (with an asynchronous validator, once it has answered)
SubmitCreatesOneChip ==
  /\ (ParserAccepts /\ ~InStore(ParserValue) /\ SubmitsText)
       => IF props.validate = "async"
            THEN /\ value' = value /\ ~lastOp'.called
                 /\ Len(commits') = Len(commits) + 1
                 /\ commits'[Len(commits')].cands =
                      <<[value |-> ParserValue, label |-> ParseInputFn(inputValue).label]>>
            ELSE OneNewChip(ParserValue)
  /\ \A i \in DOMAIN commits :
       (Settles(i) /\ Len(commits[i].cands) = 1)
         => OneNewChip(commits[i].cands[1].value)

\* C10 as stated: ..., and with an empty or whitespace-only buffer Enter does
\* not call onChange.
SubmitCommitsPendingText ==
  [][/\ SubmitCreatesOneChip
     /\ (lastOp'.called \/ value' # value) =>
          \A cursorPos \in 0..Len(inputValue) :
             ~(Trim(inputValue) = << >> /\ HandleKeyDown("Enter", cursorPos))]_vars

\* C10, amended: for every pending text whose trimmed form is non-empty,
\* committing it via Enter, Tab or blur produces exactly one onChange call
\* whose sequence has exactly one new chip, of the value the parser returned
\* (the trimmed text with the default parser), provided the parser accepts it
\* and it is not a duplicate; with an empty or whitespace-only buffer, Enter
\* that the suggestion engine does not consume (no highlighted suggestion in
\* an open dropdown) neither calls onChange nor starts a commit.
SubmitCommitsPendingTextUnlessSelecting ==
  [][/\ SubmitCreatesOneChip
     /\ ~NothingCommitted =>
          \A cursorPos \in 0..Len(inputValue) :
             ~(/\ Trim(inputValue) = << >>
               /\ ~SuggestionsHandled("Enter")
               /\ HandleKeyDown("Enter", cursorPos))]_vars

SubmitCommitsPendingTextWitness ==
  /\ props.parse = "upper"
  /\ lastOp = [ev |-> "Enter", called |-> TRUE, k |-> 1, dups |-> 0]
  /\ \E i \in DOMAIN value :
        /\ value[i].id = nextId - 1
        /\ value[i].value = <<"A">>
        /\ value[i].label = <<"a">>

(***************************************************************************)
(* Claims about splitting, paste, blur and suggestion selection.           *)
(***************************************************************************)
\* the non-empty trimmed segments of t between the characters of class
SegmentsOf(t, class) == TrimAndDropEmpty(SplitRaw(t, class))

\* what the configured parser makes of each segment
ParsedValues(segs) == [j \in DOMAIN segs |-> ParseInputFn(segs[j]).value]

\* the parser accepts every segment, and no segment equals a chip of the store
\* or another segment
AllNew(segs) ==
  LET vals == ParsedValues(segs)
  IN  /\ \A j \in DOMAIN segs : vals[j] # NullValue /\ ~IsDuplicate(vals[j], value)
      /\ \A i, j \in DOMAIN segs :
            i < j => ~IsEqual(Normalize(vals[i]), Normalize(vals[j]))

\* where the chip of that id is in the sequence passed to onChange
PositionOf(id) == CHOOSE i \in DOMAIN value' : value'[i].id = id

\* the step passes to onChange a sequence whose new chips have the values
\* vals, in that order
NewChipsInOrder(vals) ==
  /\ nextId' = nextId + Len(vals)
  /\ \A j \in DOMAIN vals :
        \E i \in DOMAIN value' :
           value'[i].id = nextId + j - 1 /\ value'[i].value = vals[j]
  /\ \A j \in DOMAIN vals :
        j > 1 => PositionOf(nextId + j - 2) < PositionOf(nextId + j - 1)
  /\ Cardinality({i \in DOMAIN value' : value'[i].id >= nextId}) = Len(vals)

\* the values of the candidates of a commit
ParsedCands(cands) == [j \in DOMAIN cands |-> cands[j].value]

\* the step commits the values vals, in that order: in one onChange call, or,
\* with an asynchronous validator, in one commit that waits for its answers
CommitsInOrder(vals) ==
  IF vals = << >> THEN NothingCommitted
  ELSE IF props.validate = "async"
    THEN /\ value' = value /\ ~lastOp'.called
         /\ Len(commits') = Len(commits) + 1
         /\ ParsedCands(commits'[Len(commits')].cands) = vals
    ELSE lastOp'.called /\ NewChipsInOrder(vals)

\* C11: an input that contains a configured delimiter, whatever the delimiter
\* list, is committed as one chip per non-empty trimmed segment between the
\* delimiters, in source order, when the parser accepts the segments and none
\* equals a chip of the store or another segment; empty segments give no chip.
DelimiterCommitSplits ==
  [][(lastOp'.ev = "change") =>
       /\ \A t \in TypedTexts :
             (/\ ContainsDelimiter(t, Delimiters)
              /\ AllNew(SegmentsOf(t, Range(Delimiters)))
              /\ HandleInputChange(t))
               => CommitsInOrder(ParsedValues(SegmentsOf(t, Range(Delimiters))))]_vars

\* the segments of a pasted text, between delimiters and newlines
PastedSegments(t) == SegmentsOf(t, Range(Delimiters) \cup {"\n"})

\* C12: a paste prevents the browser's default (the text does not get into
\* the input) exactly when the text holds a configured delimiter or a newline;
\* it then commits the non-empty segments between delimiters and newlines, one
\* new chip per segment in source order, in one onChange call (no chip of a
\* combined string), whatever the delimiter list; a paste without delimiter
\* and newline changes neither the chips nor the cursor.
PasteSplits ==
  [][(lastOp'.ev \in {"paste", "change", "none"}) =>
       \A t \in ClipboardTexts \ {<< >>} :
          HandlePaste(t) =>
            /\ HasSeparator(t) <=> (inputValue' # inputValue \o t)
            /\ (HasSeparator(t) /\ AllNew(PastedSegments(t)))
                  => CommitsInOrder(ParsedValues(PastedSegments(t)))
            /\ ~HasSeparator(t) =>
                  (value' = value /\ insertPosition' = insertPosition
                     /\ commits' = commits)]_vars

\* the values a commit of the pending text creates chips of: the parser's
\* value, unless the parser refuses the text or the store holds the value
PendingValues ==
  IF ParserAccepts /\ ~InStore(ParserValue) THEN <<ParserValue>> ELSE << >>

\* what Enter does with a pending text: it commits the values of the text in
\* one onChange call and empties the buffer (with an asynchronous validator:
\* in one commit that waits for the answer, the buffer being emptied then)
PendingTextCommitted ==
  /\ CommitsInOrder(PendingValues)
  /\ inputValue' = IF PendingValues # << >> /\ props.validate = "async"
                     THEN inputValue ELSE << >>
  /\ insertPosition' = IF PendingValues # << >> /\ props.validate # "async"
                                                /\ insertPosition # NULL
                         THEN insertPosition + 1 ELSE insertPosition

\* the step is a blur, the new focus target being outside the container
BlursOutside == lastOp'.ev = "blur" /\ HandleBlur(FALSE)

\* the step is a blur, the new focus target being inside the container
BlursInside == lastOp'.ev = "blur" /\ HandleBlur(TRUE)

\* a blur to the inside, or with nothing pending, creates no chip
IdleBlurCreatesNothing ==
  (BlursInside \/ (Trim(inputValue) = << >> /\ BlursOutside))
     => NothingCommitted /\ insertPosition' = insertPosition

\* C13 as stated: a blur to a target outside the container, with a pending
\* text that is not blank, commits the text exactly as Enter does and closes
\* the suggestions; a blur to the inside, or with a blank buffer, creates no
\* chip.
BlurCommitsPendingText ==
  [][/\ KeyCommitsText("Enter") => PendingTextCommitted
     /\ (Trim(inputValue) # << >> /\ BlursOutside)
          => PendingTextCommitted /\ ~isVisible' /\ highlightedIndex' = -1
     /\ IdleBlurCreatesNothing]_vars

\* C13, amended: a blur to a target outside the container, with a pending
\* text that is not blank and no suggestion selection in progress, commits
\* the text exactly as Enter does and closes the suggestions; a blur to the
\* inside, or with a blank buffer, creates no chip.
BlurCommitsPendingTextUnlessSelecting ==
  [][/\ KeyCommitsText("Enter") => PendingTextCommitted
     /\ (~isSelectingRef /\ Trim(inputValue) # << >> /\ BlursOutside)
          => PendingTextCommitted /\ ~isVisible' /\ highlightedIndex' = -1
     /\ IdleBlurCreatesNothing]_vars

\* a blur has committed the pending text a, after the chip A
BlurCommitsPendingTextWitness ==
  /\ lastOp = [ev |-> "blur", called |-> TRUE, k |-> 1, dups |-> 0]
  /\ ~isVisible
  /\ inputValue = << >>
  /\ Len(value) = 2
  /\ value[2].value = <<"a">> /\ value[2].id = nextId - 1

HostIds(chips) ==
  {chips[i].id : i \in DOMAIN chips} \cup {SuggestionId(j) : j \in 1..MaxResults}

\* the step passes to onChange the chips `existing` with one new chip put in
\* at gap g: a chip of value v and label l, with the validity flag isValid and
\* an id that no chip and no suggestion has
SelectedChipInserted(v, l, isValid, existing, g) ==
  LET at == IF g = NULL \/ g > Len(existing) THEN Len(existing) ELSE g
  IN  /\ lastOp'.called
      /\ nextId' = nextId + 1
      /\ InsertedAt(existing, g, 1)
      /\ value'[at + 1].value = v
      /\ value'[at + 1].label = l
      /\ value'[at + 1].isValid = isValid
      /\ value'[at + 1].id \notin HostIds(existing)

\* what the configured synchronous predicate makes of v
FlagOfPredicate(v) ==
  CASE props.validate = "none" -> "undefined"
    [] props.validate = "sync" ->
         IF SyncPredicate(v) = "true" THEN "true" ELSE "false"

\* C15: the selection of a suggestion of value V and label L, V not being the
\* value of a chip of the store, gives one onChange call with one new chip: a
\* fresh id, value V, label L, isValid the answer of the validator for V
\* (undefined without validator), put in at the gap of the cursor (with an
\* asynchronous validator: when it has answered, at the gap of the render
\* that selected); the selection of a duplicate does not call onChange.
SelectionCreatesChip ==
  [][/\ \A i \in DOMAIN suggestions :
          Selects(i) =>
            IF InStore(suggestions[i].value) THEN NothingCommitted
            ELSE IF props.validate = "async"
              THEN /\ value' = value /\ ~lastOp'.called
                   /\ commits' = Append(commits,
                        [base |-> value, pos |-> insertPosition, via |-> "select",
                         cands |-> <<[value |-> suggestions[i].value,
                                      label |-> suggestions[i].label]>>])
              ELSE SelectedChipInserted(suggestions[i].value, suggestions[i].label,
                                        FlagOfPredicate(suggestions[i].value),
                                        value, insertPosition)
     /\ \A i \in DOMAIN commits : \A outcome \in Outcomes :
          (commits[i].via = "select" /\ Settle(i, <<outcome>>))
            => SelectedChipInserted(commits[i].cands[1].value, commits[i].cands[1].label,
                                    IF outcome = "true" THEN "true" ELSE "false",
                                    commits[i].base, commits[i].pos)]_vars

\* suggestion A, of label a, was selected with the cursor before chip a
SelectionCreatesChipWitness ==
  /\ lastOp = [ev |-> "select", called |-> TRUE, k |-> 1, dups |-> 0]
  /\ Len(value) = 2
  /\ value[1] = [id |-> nextId - 1, value |-> <<"A">>, label |-> <<"a">>,
                 isValid |-> "undefined"]
  /\ value[2].value = <<"a">>
  /\ insertPosition = 1

\* the chips the step has created
CreatedChips == {c \in ChipsOf(value') : c.id >= nextId}

\* C16: a failing validation does not keep a chip out.  A commit under a
\* synchronous predicate creates the chip whatever the predicate does, with
\* isValid true when it returned true and false when it returned false or
\* threw; a commit that waited for an asynchronous predicate creates every
\* candidate, with isValid true when the promise resolved to true and false
\* when it resolved to false or rejected; without validator the new chips
\* have isValid undefined.
SoftValidationFailure ==
  [][/\ (CreatesChips /\ Len(commits') >= Len(commits))
          => /\ props.validate # "async"
             /\ \A c \in CreatedChips : c.isValid = FlagOfPredicate(c.value)
     /\ (KeyCommitsText("Enter") /\ PendingValues # << >> /\ props.validate # "async")
          => /\ OneNewChip(ParserValue)
             /\ \A c \in CreatedChips : c.isValid = FlagOfPredicate(ParserValue)
     /\ \A i \in DOMAIN commits :
          \A outcomes \in [1..Len(commits[i].cands) -> Outcomes] :
             Settle(i, outcomes)
               => /\ nextId' = nextId + Len(commits[i].cands)
                  /\ \A j \in DOMAIN commits[i].cands :
                        \E c \in CreatedChips :
                           /\ c.id = nextId + j - 1
                           /\ c.value = commits[i].cands[j].value
                           /\ c.isValid = IF outcomes[j] = "true" THEN "true"
                                          ELSE "false"]_vars

\* the synchronous predicate threw on A, and A is a chip, flagged invalid
SoftValidationFailureWitness ==
  /\ props.validate = "sync"
  /\ SyncPredicate(<<"A">>) = "throws"
  /\ lastOp = [ev |-> "Enter", called |-> TRUE, k |-> 1, dups |-> 0]
  /\ \E i \in DOMAIN value :
        /\ value[i].id = nextId - 1
        /\ value[i].value = <<"A">>
        /\ value[i].isValid = "false"

(***************************************************************************)
(* Claims about the validation hook.                                       *)
(***************************************************************************)
\* what a call that ran predicate fn on v has to give back, the promise of an
\* asynchronous predicate having settled as `promise`
BooleanOf(fn, v, promise) ==
  CASE fn = "none" -> "true"
    [] fn = "sync" -> IF SyncPredicate(v) = "true" THEN "true" ELSE "false"
    [] fn = "async" -> IF promise = "true" THEN "true" ELSE "false"

\* every validate(value) call has resolved to a boolean, and to the right
\* one; it is unresolved only while the promise of its predicate is
ValidateResolves ==
  \A i \in DOMAIN validations :
     LET made == validations[i]
     IN  made.mode = "validate" =>
           IF made.promise = "pending" THEN made.result = "pending"
           ELSE made.result = BooleanOf(made.fn, made.value, made.promise)

\* the step is a call of validate or validateSync
Calls(mode) ==
  /\ Len(validations') = Len(validations) + 1
  /\ validations'[Len(validations')].mode = mode

\* C17 as stated: validate(value) resolves to a boolean and never rejects or
\* throws: to the result of a synchronous or asynchronous predicate, to false
\* when the predicate throws or its promise rejects, to true without
\* predicate; after the validate prop is replaced, later calls run the new
\* predicate.
ValidateFailsClosed ==
  [][/\ ValidateResolves'
     /\ Calls("validate")
          => validations'[Len(validations')].fn = props.validate]_vars

\* C17, amended: ...; after the validate prop is replaced and the effect that
\* stores it has run, later calls run the new predicate.
ValidateFailsClosedAfterEffect ==
  [][/\ ValidateResolves'
     /\ (Calls("validate") /\ ~pendingEffect)
          => validations'[Len(validations')].fn = props.validate]_vars

\* the prop was replaced by an asynchronous predicate between two calls: the
\* first ran the synchronous predicate, the second the new one, whose promise
\* rejected
ValidateFailsClosedWitness ==
  /\ props.validate = "async" /\ ~pendingEffect
  /\ validations =
       << [mode |-> "validate", value |-> <<"a">>, fn |-> "sync",
           promise |-> "none", result |-> "true"],
          [mode |-> "validate", value |-> <<"a">>, fn |-> "async",
           promise |-> "rejects", result |-> "false"] >>

\* C18: validateSync(value) returns a boolean at once: the result of a
\* synchronous predicate, false when it throws, true for every value when the
\* predicate returns a promise, whatever becomes of the promise (a rejection
\* does not reach the caller), and true without predicate.
ValidateSyncOptimistic ==
  \A i \in DOMAIN validations :
     LET made == validations[i]
     IN  made.mode = "validateSync" =>
           made.result = IF made.fn = "async" THEN "true"
                         ELSE BooleanOf(made.fn, made.value, made.promise)

\* validateSync returned false for A, on which the synchronous predicate
\* throws, and true under the asynchronous predicate, whose promise rejected
ValidateSyncOptimisticWitness ==
  /\ SyncPredicate(<<"A">>) = "throws"
  /\ validations =
       << [mode |-> "validateSync", value |-> <<"A">>, fn |-> "sync",
           promise |-> "none", result |-> "false"],
          [mode |-> "validateSync", value |-> <<"b">>, fn |-> "async",
           promise |-> "rejects", result |-> "true"] >>

(***************************************************************************)
(* Claims about failing searches.                                          *)
(***************************************************************************)
\* the promise of request id rejects in this step
Rejects(id) ==
  /\ id \in DOMAIN requests
  /\ requests[id].status = "pending"
  /\ requests'[id].status \in Rejections

\* C19: a superseded search request (its search() call is no longer the last
\* one) that rejects is dropped without any error path: the error is neither
\* passed to onError nor logged, and suggestions, isVisible and
\* highlightedIndex stay as the newer search has set them or will set them.
SupersededRejectionDiscarded ==
  [][\A id \in DOMAIN requests :
       (mounted /\ Rejects(id) /\ requests[id].gen # callCount)
         => /\ requests'[id].errors = 0
            /\ UNCHANGED <<suggestions, isVisible, highlightedIndex>>]_vars

\* C20: when the request of the last search() call rejects, the error is
\* passed to onError (or logged) exactly once unless it is an AbortError, for
\* which the error path is not taken; either way suggestions = [], isVisible
\* = false, highlightedIndex = -1, loading is over, and nothing else of the
\* engine changes (the rejection stays in the timer callback).
CurrentRejectionReported ==
  [][\A id \in DOMAIN requests :
       (mounted /\ Rejects(id) /\ requests[id].gen = callCount)
         => /\ requests'[id].errors =
                 IF requests'[id].status = "AbortError" THEN 0 ELSE 1
            /\ \A other \in DOMAIN requests \ {id} :
                  requests'[other].errors = requests[other].errors
            /\ suggestions' = << >> /\ ~isVisible' /\ highlightedIndex' = -1
            /\ ~isLoading'
            /\ UNCHANGED <<debounceTimerRef, lastQueryRef, timers, callCount>>]_vars

(***************************************************************************)
(* Claims about the loading flag and the teardown.                         *)
(***************************************************************************)
\* every external search issued so far has settled
AllSettled == \A id \in DOMAIN requests : requests[id].status # "pending"

\* the debounce callback runs in this step: an external search is issued
Issues == Len(requests') = Len(requests) + 1

\* C21: isLoading becomes true when a debounce timer expires and the search
\* call is issued; and once every issued search has settled (success, error,
\* supersession) and no debounce timer is pending, isLoading is false.
LoadingClearedWhenSettled ==
  [][/\ (mounted /\ Issues) => isLoading'
     /\ (mounted' /\ AllSettled' /\ timers' = {}) => ~isLoading']_vars

\* a search has failed, the result of another has been discarded, all is over
LoadingClearedWhenSettledWitness ==
  /\ mounted /\ AllSettled /\ timers = {} /\ ~isLoading
  /\ \E a, b \in DOMAIN requests :
       /\ requests[a].status = "Error"
       /\ requests[b].status = "resolved"
       /\ requests[b].query # lastQueryRef

\* C22: after the unmount a debounce timer that was pending never issues the
\* external search, and the settlement of a request that was in flight is
\* ignored: no update of suggestions, isVisible, highlightedIndex or
\* isLoading, and no call of the error hook.
TeardownIgnoresSettlement ==
  [][~mounted =>
       /\ ~Issues
       /\ UNCHANGED <<suggestions, isVisible, highlightedIndex, isLoading>>
       /\ \A id \in DOMAIN requests : requests'[id].errors = requests[id].errors]_vars

(***************************************************************************)
(* Claims about search() and the resolution of the current search.         *)
(***************************************************************************)
\* search(query) takes the branch that closes the suggestions
IdleSearch(q) == (Trim(q) = << >> \/ ~hasOnSearch) /\ Search(q)

\* C23: search(query) with an empty or whitespace-only query, or without a
\* search function, leaves no debounce timer pending and suggestions = [],
\* isVisible = false, highlightedIndex = -1; it issues no external search, and
\* every search issued later belongs to the last search() call, never to a
\* call made before.
EmptyQueryGoesIdle ==
  [][/\ \A q \in Queries :
          IdleSearch(q) => /\ timers' = {}
                           /\ suggestions' = << >>
                           /\ ~isVisible'
                           /\ highlightedIndex' = -1
                           /\ requests' = requests
     /\ Issues => requests'[Len(requests')].gen = callCount]_vars

\* a blank query has cancelled the timer of the call before it, whose query
\* was never searched for
EmptyQueryGoesIdleWitness ==
  /\ hasOnSearch /\ mounted
  /\ debounceTimerRef = 1 /\ callCount = 2
  /\ lastQueryRef = << >>
  /\ timers = {} /\ requests = << >>
  /\ suggestions = << >> /\ ~isVisible /\ highlightedIndex = -1

\* the request issued last resolves in this step, the hook being mounted
LastIssuedResolves ==
  /\ mounted
  /\ requests # << >>
  /\ Resolves(Len(requests))

\* the results of the request issued last are shown, the first highlighted
ResultsShown ==
  LET id == Len(requests')
      n == requests'[id].n
  IN  /\ suggestions' = ResultsOf(id, n)
      /\ isVisible' = (n > 0)
      /\ highlightedIndex' = IF n > 0 THEN 0 ELSE -1

\* C24 as stated: when the most recently issued search resolves with R,
\* suggestions = R, isVisible = (R is non-empty) and highlightedIndex = 0 if R
\* is non-empty, else -1.
LastIssuedResultShown == [][LastIssuedResolves => ResultsShown]_vars

\* C24, amended: the same, provided the trimmed query of that search is still
\* the current one (no later search() call with another trimmed query and no
\* clear() since).
CurrentResultShown ==
  [][(LastIssuedResolves /\ requests[Len(requests)].query = lastQueryRef)
       => ResultsShown]_vars

\* the results of the second search have replaced those of the first
CurrentResultShownWitness ==
  /\ mounted
  /\ Len(requests) = 2
  /\ requests[1].status = "resolved" /\ requests[1].n > 0 /\ ~requests[1].late
  /\ requests[2].status = "resolved" /\ requests[2].n > 0
  /\ requests[2].query = lastQueryRef
  /\ suggestions = ResultsOf(2, requests[2].n)
  /\ isVisible /\ highlightedIndex = 0

(***************************************************************************)
(* Claims about splitByDelimiters.                                         *)
(***************************************************************************)
\* the text starts with the delimiter string
StartsWith(t, d) == d # << >> /\ Len(d) <= Len(t) /\ SubSeq(t, 1, Len(d)) = d

\* the pieces of the input between the occurrences of the delimiter strings,
\* read from left to right
RECURSIVE CutAtDelimiters(_, _)
CutAtDelimiters(input, delimiters) ==
  IF input = << >> THEN << << >> >>
  ELSE IF \E k \in DOMAIN delimiters : StartsWith(input, delimiters[k])
    THEN LET k == CHOOSE j \in DOMAIN delimiters :
                    /\ StartsWith(input, delimiters[j])
                    /\ \A h \in 1..(j - 1) : ~StartsWith(input, delimiters[h])
         IN  << << >> >> \o CutAtDelimiters(SubSeq(input, Len(delimiters[k]) + 1,
                                                   Len(input)), delimiters)
    ELSE LET rest == CutAtDelimiters(Tail(input), delimiters)
         IN  << <<Head(input)>> \o Head(rest) >> \o Tail(rest)

\* C25: for every input and every list of delimiter strings (regex
\* metacharacters, "-" in any position, delimiters of several characters),
\* splitByDelimiters returns without throwing exactly the trimmed, non-empty
\* segments between the occurrences of the delimiter strings, and more than one
\* segment only if containsDelimiter(input, delimiters) is true.
SplitCutsAtDelimiters ==
  call.fn = "splitByDelimiters" =>
    /\ ~call.throws
    /\ call.result = TrimAndDropEmpty(CutAtDelimiters(call.input, call.delimiters))
    /\ Len(call.result) > 1 => ContainsDelimiterString(call.input, call.delimiters)

(***************************************************************************)
(* Claims about rejected candidates and inline delimiters.                 *)
(***************************************************************************)
\* the values of the chips of the store, in order
StoredValues == [i \in DOMAIN value |-> value[i].value]

\* the values of the segments the parser accepts and the store does not hold,
\* in source order
RECURSIVE AcceptedValues(_)
AcceptedValues(segs) ==
  IF segs = << >> THEN << >>
  ELSE LET v == ParseInputFn(Head(segs)).value
       IN  (IF v # NullValue /\ ~InStore(v) THEN <<v>> ELSE << >>)
             \o AcceptedValues(Tail(segs))

\* the commit of the segments creates a chip for every accepted one, in source
\* order, and changes neither the chips nor the cursor when there is none
DropsRejectedOnly(segs) ==
  /\ CommitsInOrder(AcceptedValues(segs))
  /\ AcceptedValues(segs) = << >> => insertPosition' = insertPosition

\* C26: in a commit of several tokens (a paste, an input with delimiters) a
\* candidate the parser returns null for, or that duplicates a chip of the
\* store, creates no chip, and every other candidate of the operation is
\* created, in source order; when every candidate is dropped, onChange is not
\* called and the chips and the cursor are unchanged.
RejectedDroppedIndependently ==
  [][(/\ typed' # typed
      /\ typed'.by \in {"paste", "change"}
      /\ HasSeparator(typed'.last))
       => DropsRejectedOnly(IF typed'.by = "paste"
                              THEN PastedSegments(typed'.last)
                              ELSE SegmentsOf(typed'.last, Range(Delimiters)))]_vars

\* a paste of two tokens has created a chip of the second, the first being
\* the value of the chip of the store, at the cursor before that chip
RejectedDroppedIndependentlyWitness ==
  /\ typed.by = "paste" /\ typed.last = <<"A", ",", "a">>
  /\ lastOp = [ev |-> "paste", called |-> TRUE, k |-> 1, dups |-> 1]
  /\ StoredValues = << <<"a">>, <<"A">> >>
  /\ insertPosition = 1
  /\ inputValue = << >>

\* a paste of two tokens has created a chip of the first, the parser having
\* returned null for the second
ParserNullDroppedAlone ==
  /\ props.parse = "minlen"
  /\ typed.by = "paste" /\ typed.last = <<"a", "a", "a", ",", "A">>
  /\ lastOp = [ev |-> "paste", called |-> TRUE, k |-> 1, dups |-> 0]
  /\ StoredValues = << <<"a", "a", "a">> >>

\* every token of a paste was dropped, with the cursor between the chips
AllDroppedAtGap ==
  /\ typed.by = "paste" /\ Len(typed.last) = 3
  /\ lastOp = [ev |-> "paste", called |-> FALSE, k |-> 0, dups |-> 2]
  /\ insertPosition = 0

(***************************************************************************)
(* C27: a delimiter in the text entered into the control without chips.    *)
(***************************************************************************)
\* the two addresses of the scenario: two values the parser, the comparison
\* and the normalizer of the configuration keep apart
TwoAddresses == {<<x, y>> \in {<<"a">>, <<"A">>} \X {<<"a">>, <<"A">>} : x # y}

\* the configuration of the scenario: no asynchronous validator, the default
\* parser, comparison and normalizer
ScenarioProps ==
  /\ props.validate # "async"
  /\ props.parse = "default"
  /\ props.isEqual = "strict"
  /\ props.normalize = "identity"

\* C27 as stated: from no chips, the text "x,y" typed into the control (no
\* Enter, no blur, nothing pasted) leaves two chips, x and y in that order,
\* and an empty buffer.
TypedListCommitsBoth ==
  \A p \in TwoAddresses :
    (ScenarioProps /\ typed.pastes = 0 /\ typed.text = p[1] \o <<",">> \o p[2])
      => StoredValues = <<p[1], p[2]>> /\ inputValue = << >>

\* C27: from no chips, the text "x,y" that gets into the input in one change
\* event leaves two chips, x and y in that order, and an empty buffer; typed
\* key by key, the comma commits x at once and y stays in the buffer.
InlineDelimiterCommits ==
  \A p \in TwoAddresses :
    (ScenarioProps /\ typed.pastes = 0 /\ typed.text = p[1] \o <<",">> \o p[2])
      => IF typed.events = 1
           THEN StoredValues = <<p[1], p[2]>> /\ inputValue = << >>
           ELSE StoredValues = <<p[1]>> /\ inputValue = p[2]

\* "a,A" typed key by key: one chip, A in the buffer
InlineDelimiterCommitsWitness ==
  /\ ScenarioProps
  /\ typed.text = <<"a", ",", "A">> /\ typed.events = 3
  /\ StoredValues = << <<"a">> >>
  /\ inputValue = <<"A">>

\* "a,A" in one change event: two chips
InlineDelimiterCommitsAtOnce ==
  /\ ScenarioProps
  /\ typed.text = <<"a", ",", "A">> /\ typed.events = 1
  /\ StoredValues = << <<"a">>, <<"A">> >>

(***************************************************************************)
(* C28: the cursor after a Backspace that deletes a chip.                  *)
(***************************************************************************)
\* the step is a Backspace in the empty input that deletes a chip
BackspaceDeleted ==
  /\ lastOp' = [ev |-> "Backspace", called |-> TRUE, k |-> 0, dups |-> 0]
  /\ Len(value') = Len(value) - 1
  /\ HandleKeyDown("Backspace", 0)

\* C28: after a Backspace that deletes a chip the cursor is cleared
\* (insertPosition = null) when no chip remains; otherwise a cursor at gap i > 0
\* is at gap i - 1 and a cursor at the end stays at the end.
BackspaceMovesCursor ==
  [][BackspaceDeleted =>
       IF Len(value') = 0 THEN insertPosition' = NULL
       ELSE IF insertPosition = NULL THEN insertPosition' = NULL
       ELSE insertPosition' = insertPosition - 1]_vars

(***************************************************************************)
(* C29: the arrow keys move the cursor between the chips.                  *)
(***************************************************************************)
\* where ArrowLeft takes the cursor: from the end to the gap before the last
\* chip, from gap i to gap max(i - 1, 0)
LeftOf(pos, len) ==
  IF pos = NULL THEN len - 1 ELSE IF pos - 1 > 0 THEN pos - 1 ELSE 0

\* where ArrowRight takes the cursor: from gap i to gap i + 1 while a chip
\* follows that gap, otherwise to the end
RightOf(pos, len) ==
  IF pos = NULL THEN NULL
  ELSE IF pos + 1 \in 0..(len - 1) THEN pos + 1 ELSE NULL

\* C29: ArrowLeft with the text caret at 0 and at least one chip moves the
\* cursor from the end to gap len - 1 and from gap i to gap max(i - 1, 0);
\* with no chip or with the caret elsewhere it leaves the cursor unchanged.
\* ArrowRight with the text caret at the end of the pending text moves the
\* cursor from gap i to gap i + 1 while a chip follows that gap and otherwise
\* to the end, and leaves a cursor at the end alone.  Neither key changes the
\* chips.
ArrowKeysMoveCursor ==
  [][/\ \A cursorPos \in 0..Len(inputValue) :
          HandleKeyDown("ArrowLeft", cursorPos)
            => /\ value' = value
               /\ insertPosition' =
                    IF cursorPos = 0 /\ Len(value) > 0
                      THEN LeftOf(insertPosition, Len(value))
                      ELSE insertPosition
     /\ \A cursorPos \in 0..Len(inputValue) :
          HandleKeyDown("ArrowRight", cursorPos)
            => /\ value' = value
               /\ cursorPos = Len(inputValue)
                    => insertPosition' = RightOf(insertPosition, Len(value))]_vars

\* ArrowRight has moved the cursor from before the first of two chips to the
\* gap between them
ArrowKeysMoveCursorWitness ==
  /\ typed.by = "ArrowRight"
  /\ Len(value) = 2
  /\ insertPosition = 1

(***************************************************************************)
(* C30: Escape and the cursor between the chips.                           *)
(***************************************************************************)
\* the step is an Escape key press with the cursor at a gap
EscapeAtGap ==
  /\ typed'.by = "Escape"
  /\ insertPosition # NULL
  /\ \E cursorPos \in 0..Len(inputValue) : HandleKeyDown("Escape", cursorPos)

\* C30 as stated: in every state with the cursor at a gap, the dropdown of
\* suggestions visible or not, one Escape key press leaves the cursor at the
\* end (insertPosition = null) and does not change the chips.
EscapeCollapsesCursor ==
  [][EscapeAtGap => insertPosition' = NULL /\ value' = value]_vars

\* C30: in every state with the cursor at a gap and the dropdown of
\* suggestions not visible, one Escape key press leaves the cursor at the end
\* (insertPosition = null); while the dropdown is visible, the key press
\* closes the dropdown and leaves the cursor at its gap; the chips are
\* unchanged in both cases.
EscapeCollapsesCursorWhenClosed ==
  [][EscapeAtGap =>
       /\ value' = value
       /\ IF isVisible
            THEN insertPosition' = insertPosition /\ ~isVisible'
            ELSE insertPosition' = NULL]_vars

\* Escape was pressed with the cursor at a gap and the dropdown visible: the
\* dropdown is closed over its suggestions, the cursor is at its gap
EscapeCollapsesCursorWhenClosedWitness ==
  /\ typed.by = "Escape"
  /\ insertPosition # NULL
  /\ ~isVisible /\ suggestions # << >>

\* Escape was pressed with chips in the store and no dropdown: the cursor is
\* at the end
EscapeCollapsedCursor ==
  /\ typed.by = "Escape"
  /\ insertPosition = NULL
  /\ Len(value) > 0 /\ suggestions = << >>

(***************************************************************************)
(* C31: how long the guard flag of a suggestion selection stays set.      *)
(***************************************************************************)
\* C31: the guard flag set by the selection of a suggestion is cleared after
\* the event-loop turn of the selection: while it is set, the zero-delay timer
\* that clears it is scheduled; and a blur to the outside in a later turn
\* (every scheduled zero-delay timer has run), with a pending text that is not
\* blank, commits the text, whether or not the validator has answered for the
\* selected value.
SelectionGuardShortLived ==
  [][/\ isSelectingRef' => selectTimers' > 0
     /\ (selectTimers = 0 /\ Trim(inputValue) # << >> /\ BlursOutside)
          => PendingTextCommitted]_vars

(***************************************************************************)
(* C32: ArrowDown and ArrowUp in the visible dropdown.                     *)
(***************************************************************************)
\* x mod L, for L > 0
Mod(x, L) == ((x % L) + L) % L

\* the step is the press of an arrow key in the visible dropdown
ArrowInDropdown(key) ==
  /\ isVisible /\ Len(suggestions) >= 1
  /\ SuggestionsKeyDown(key)

\* the arrow key is consumed and changes neither the list nor its visibility
ArrowOnlyHighlights(key) ==
  /\ SuggestionsHandled(key)
  /\ suggestions' = suggestions /\ isVisible' = isVisible

\* C32 as stated: in the visible dropdown of L >= 1 suggestions, whatever the
\* highlighted index h is (-1 and the values set through handleHighlight
\* included), ArrowDown sets the highlighted index to (h + 1) mod L and ArrowUp
\* sets it to (h - 1 + L) mod L; both keys are consumed and neither changes
\* the suggestions or the visibility.
HighlightWraps ==
  [][/\ ArrowInDropdown("ArrowDown") =>
          /\ highlightedIndex' = Mod(highlightedIndex + 1, Len(suggestions))
          /\ ArrowOnlyHighlights("ArrowDown")
     /\ ArrowInDropdown("ArrowUp") =>
          /\ highlightedIndex' =
               Mod(highlightedIndex - 1 + Len(suggestions), Len(suggestions))
          /\ ArrowOnlyHighlights("ArrowUp")]_vars

\* C32: in the visible dropdown of L >= 1 suggestions with the highlighted
\* index h a valid index, ArrowDown sets the highlighted index to (h + 1) mod L
\* and ArrowUp sets it to (h - 1 + L) mod L; from h = -1 ArrowDown goes to 0 and
\* ArrowUp to L - 1; from an index h >= L set through handleHighlight ArrowDown
\* goes to 0 and ArrowUp to h - 1; both keys are consumed and neither changes
\* the suggestions or the visibility.
HighlightWrapsInRange ==
  [][/\ ArrowInDropdown("ArrowDown") =>
          /\ highlightedIndex' =
               IF highlightedIndex \in 0..(Len(suggestions) - 1)
                 THEN Mod(highlightedIndex + 1, Len(suggestions))
                 ELSE 0
          /\ ArrowOnlyHighlights("ArrowDown")
     /\ ArrowInDropdown("ArrowUp") =>
          /\ highlightedIndex' =
               IF highlightedIndex \in 0..(Len(suggestions) - 1)
                 THEN Mod(highlightedIndex - 1 + Len(suggestions), Len(suggestions))
                 ELSE IF highlightedIndex = -1 THEN Len(suggestions) - 1
                 ELSE highlightedIndex - 1
          /\ ArrowOnlyHighlights("ArrowUp")]_vars

\* ArrowUp or ArrowDown has moved the highlight of a list of three from the
\* first suggestion to the last or from the second to the last
HighlightWrapsInRangeWitness ==
  /\ isVisible /\ Len(suggestions) = 3
  /\ highlightedIndex = 2

(***************************************************************************)
(* C33: what handleKeyDown of the engine consumes.                         *)
(***************************************************************************)
DropdownOpen == isVisible /\ Len(suggestions) >= 1

HighlightIsListed ==
  highlightedIndex >= 0 /\ highlightedIndex <= Len(suggestions) - 1

\* the dropdown has been closed and its list kept
ClosedKeepingList ==
  /\ ~isVisible' /\ highlightedIndex' = -1 /\ suggestions' = suggestions

\* the dropdown has been closed by a selection
ClosedBySelection ==
  /\ ~isVisible' /\ highlightedIndex' = -1 /\ suggestions' = << >>

\* C33: handleKeyDown of the engine returns true exactly when the dropdown is
\* visible and non-empty and the key is ArrowDown, ArrowUp, Escape (which closes
\* the dropdown), or Enter or Tab with a valid highlighted index (which select
\* that suggestion); Enter without a valid highlight returns false and changes
\* nothing, Tab without a valid highlight closes the dropdown and returns
\* false, any other key and any key while the dropdown is hidden or empty
\* return false and change nothing.
KeyDownConsumes ==
  [][\A key \in Keys : SuggestionsKeyDown(key) =>
       /\ SuggestionsHandled(key) <=>
            /\ DropdownOpen
            /\ \/ key \in {"ArrowDown", "ArrowUp", "Escape"}
               \/ key \in {"Enter", "Tab"} /\ HighlightIsListed
       /\ (DropdownOpen /\ key = "Escape") => ClosedKeepingList
       /\ (DropdownOpen /\ key \in {"Enter", "Tab"} /\ HighlightIsListed)
            => ClosedBySelection
       /\ (DropdownOpen /\ key = "Enter" /\ ~HighlightIsListed)
            => UNCHANGED searchVars
       /\ (DropdownOpen /\ key = "Tab" /\ ~HighlightIsListed)
            => /\ ClosedKeepingList
               /\ ~SuggestionsHandled(key)
       /\ (~DropdownOpen
           \/ key \notin {"ArrowDown", "ArrowUp", "Escape", "Enter", "Tab"})
            => /\ UNCHANGED searchVars
               /\ ~SuggestionsHandled(key)]_vars

\* Escape, or Tab without a valid highlight, has closed a dropdown of three
\* suggestions, which are still in the list
KeyDownConsumesWitness ==
  /\ ~isVisible /\ Len(suggestions) = 3 /\ highlightedIndex = -1
  /\ timers = {} /\ \A id \in DOMAIN requests : requests[id].status # "pending"

(***************************************************************************)
(* C34: handleSelect calls onSelect once and closes the dropdown.          *)
(***************************************************************************)
\* the step is handleSelect(suggestions[i]): a click on a listed suggestion
\* or Enter or Tab on the highlighted one
SelectsBy(i) ==
  \/ SelectSuggestion(i)
  \/ /\ i = highlightedIndex + 1 /\ DropdownOpen /\ HighlightIsListed
     /\ \E key \in {"Enter", "Tab"} : DropdownKeyDown(key)

\* C34: handleSelect(s), reached by click, Enter or Tab, calls the external
\* onSelect exactly once, with s, and leaves suggestions = [], isVisible =
\* false and highlightedIndex = -1.
SelectCallsOnceAndCloses ==
  [][\A i \in DOMAIN suggestions : SelectsBy(i) =>
       /\ call'.result = Append(call.result, suggestions[i])
       /\ suggestions' = << >>
       /\ ~isVisible'
       /\ highlightedIndex' = -1]_vars

\* onSelect is called with a suggestion in no other step
OnSelectOnlyBySelection ==
  [][call'.result # call.result => \E i \in DOMAIN suggestions : SelectsBy(i)]_vars

\* the third suggestion of a list has been selected, and only it
SelectCallsOnceAndClosesWitness ==
  /\ Len(call.result) = 1
  /\ call.result[1].id = SuggestionId(3)
  /\ suggestions = << >> /\ ~isVisible /\ highlightedIndex = -1

(***************************************************************************)
(* C35: close() against clear().                                           *)
(***************************************************************************)
\* search(q) with a search function and a non-blank query arms a timer for
\* the external search of the trimmed query
FreshSearchArmed(q) ==
  \E t \in timers' \ timers :
    /\ t.query = Trim(q) /\ t.age = 0
    /\ debounceTimerRef' = t.id

\* request id, issued for the query seen last, resolves with n results and
\* they are shown
ResultAccepted(id, n) ==
  /\ suggestions' = ResultsOf(id, n)
  /\ isVisible' = (n > 0)

\* C35: close() sets isVisible = false and highlightedIndex = -1 and leaves
\* the suggestion list and the last-seen query unchanged; clear() also empties
\* the list and resets the last-seen query; and a search() with a non-blank
\* query, the one searched before clear() included, arms a fresh external
\* search, whose result is accepted when it is the query seen last.
CloseKeepsClearResets ==
  [][/\ Close => /\ ~isVisible' /\ highlightedIndex' = -1
                 /\ suggestions' = suggestions
                 /\ lastQueryRef' = lastQueryRef
     /\ Clear => /\ ~isVisible' /\ highlightedIndex' = -1
                 /\ suggestions' = << >>
                 /\ lastQueryRef' = << >>
     /\ \A q \in Queries :
          (mounted /\ hasOnSearch /\ Trim(q) # << >> /\ Search(q))
            => FreshSearchArmed(q)
     /\ \A id \in DOMAIN requests, n \in 0..MaxListLen :
          (mounted /\ Resolve(id, n) /\ lastQueryRef = requests[id].query)
            => ResultAccepted(id, n)]_vars

\* a query has been searched, its results dropped by clear() or replaced, and
\* searched again: the results of the second search are shown, and the first
\* search had been answered before the second was issued
CloseKeepsClearResetsWitness ==
  /\ Len(requests) = 2
  /\ requests[1].query = requests[2].query
  /\ requests[1].status = "resolved" /\ ~requests[1].late
  /\ requests[2].status = "resolved" /\ requests[2].n = 3
  /\ suggestions = ResultsOf(2, 3) /\ isVisible

(***************************************************************************)
(* C36: Enter or Tab on a highlighted suggestion, with text in the buffer. *)
(***************************************************************************)
\* the step is Enter or Tab pressed with the dropdown visible, a valid
\* highlight, and text in the pending buffer
SubmitKeyOnHighlight ==
  /\ DropdownOpen /\ HighlightIsListed
  /\ Trim(inputValue) # << >>
  /\ \E key \in {"Enter", "Tab"}, cursorPos \in 0..Len(inputValue) :
        HandleKeyDown(key, cursorPos)

Highlighted == suggestions[highlightedIndex + 1]

\* exactly one chip has been added to the chips `before`, with the value and
\* the label of the suggested candidate
OneChipFrom(cand, before) ==
  /\ Len(value') = Len(before) + 1
  /\ \E j \in DOMAIN value' :
        /\ value'[j].value = cand.value
        /\ value'[j].label = cand.label
        /\ value'[j].id = nextId
        /\ WithoutNth(value', j) = before

\* C36 as stated: the key press creates exactly one chip, from the highlighted
\* suggestion, and leaves the pending buffer empty.
SubmitKeySelectsHighlighted ==
  [][SubmitKeyOnHighlight =>
       /\ OneChipFrom(Highlighted, value)
       /\ inputValue' = << >>]_vars

\* C36: Enter or Tab pressed with the dropdown visible, a valid highlight and
\* text in the buffer is handled by the suggestion engine first: the key press
\* selects the highlighted suggestion and does not commit the typed text.  When
\* the suggestion duplicates an existing chip no chip is created and the buffer
\* is emptied; otherwise exactly one chip is created, from the highlighted
\* suggestion, and the buffer is emptied, at once without an asynchronous
\* validator, and when the validation of the suggestion completes with one
\* (until then the key press leaves the chips and the buffer unchanged).
SubmitKeySelectsUnlessDuplicate ==
  [][/\ SubmitKeyOnHighlight =>
          /\ lastOp'.ev = "select"
          /\ IF \E i \in DOMAIN value :
                  IsEqual(Normalize(value[i].value), Normalize(Highlighted.value))
               THEN value' = value /\ inputValue' = << >> /\ commits' = commits
               ELSE IF props.validate # "none" /\ validatorRef = "async"
                 THEN /\ value' = value /\ inputValue' = inputValue
                      /\ commits' = Append(commits,
                           [base |-> value, pos |-> insertPosition, via |-> "select",
                            cands |-> <<[value |-> Highlighted.value,
                                         label |-> Highlighted.label]>>])
                 ELSE /\ OneChipFrom(Highlighted, value)
                      /\ inputValue' = << >>
                      /\ commits' = commits
     /\ \A i \in DOMAIN commits :
          (/\ commits[i].via = "select"
           /\ \E o \in [1..1 -> Outcomes] : Settle(i, o))
            => /\ OneChipFrom(commits[i].cands[1], commits[i].base)
               /\ inputValue' = << >>]_vars

\* the selection made by the key has created its chip and emptied the buffer
SubmitKeySelectsUnlessDuplicateWitness ==
  /\ lastOp.ev = "select" /\ lastOp.called
  /\ Len(value) = 2 /\ inputValue = << >>
  /\ value[2].value = MockSuggestionValues[1]
  /\ value[2].label = MockSuggestionLabels[1]
  /\ ~isVisible /\ suggestions = << >>

\* the validation of a selected suggestion has completed with text typed since
\* the selection: its chip is there and the buffer is empty
SelectionSettledWitness ==
  /\ lastOp.ev = "settle" /\ lastOp.k = 1
  /\ Len(value) >= 1 /\ value[Len(value)].value = MockSuggestionValues[1]
  /\ inputValue = << >> /\ isSelectingRef

(***************************************************************************)
(* C37: the dropdown is consistent.                                        *)
(***************************************************************************)
\* C37: in every reachable state of the engine under a host that calls
\* handleHighlight with indexes of listed suggestions only, a visible dropdown
\* has a non-empty list and a highlighted index that is -1 or a valid index
\* of the list.
DropdownConsistent ==
  isVisible =>
    /\ Len(suggestions) >= 1
    /\ highlightedIndex \in -1..(Len(suggestions) - 1)

\* in every reachable state of the engine, whatever index the host highlights,
\* a visible dropdown has a non-empty list
VisibleNonEmpty == isVisible => Len(suggestions) >= 1

\* the dropdown is visible with three suggestions and the last one highlighted
\* after an earlier list had been shown and closed
DropdownConsistentWitness ==
  /\ isVisible /\ Len(suggestions) = 3 /\ highlightedIndex = 2
  /\ Len(requests) = 2 /\ requests[1].status = "resolved" /\ requests[1].n = 1
  /\ ~requests[1].late /\ suggestions = ResultsOf(2, 3)

(***************************************************************************)
(* C38: a closed dropdown stays closed until the next search.              *)
(***************************************************************************)
\* the dropdown is not visible while the pending buffer is empty: the text
\* its suggestions were searched for has been committed or removed
HiddenForCommittedText == isVisible => inputValue # << >>

\* no timer and no request has shown the dropdown since the Escape key, the
\* last event of the control, closed it
HiddenSinceEscape == typed.by = "Escape" => ~isVisible

\* C38: once close() has hidden the dropdown (after a commit key, a blur or
\* Escape) isVisible stays false until the next search() call: neither a
\* debounce timer pending at close() nor a request in flight then reopens it,
\* so the dropdown is never visible for text that has been committed and
\* cleared from the buffer.
ClosedUntilNextSearch == HiddenForCommittedText /\ HiddenSinceEscape

(***************************************************************************)
(* C39: a commit clears the text it committed.                             *)
(***************************************************************************)
\* the last event of the control was a character, no delimiter, typed at the
\* end of the pending buffer: every commit that is suspended on the validator
\* was triggered before it
TypedSinceTrigger ==
  /\ typed.by = "key"
  /\ typed.last[1] \notin Range(Delimiters)
  /\ inputValue # << >> /\ inputValue[Len(inputValue)] = typed.last[1]

\* the validation of commit i completes in this step
Completes(i) == \E o \in [1..Len(commits[i].cands) -> Outcomes] : Settle(i, o)

\* C39: a commit clears only the text it committed: a character typed into
\* the pending buffer after the commit was triggered and before its
\* asynchronous validation completes is still in the buffer, at its end, once
\* the commit completes.
CommitClearsOwnText ==
  [][\A i \in DOMAIN commits :
       (TypedSinceTrigger /\ Completes(i))
         => /\ inputValue' # << >>
            /\ inputValue'[Len(inputValue')] = typed.last[1]]_vars

(***************************************************************************)
(* C40: a pending text is committed once.                                  *)
(***************************************************************************)
\* commits i and j were triggered for the same text: same chips around, same
\* candidates, both through addChipsFromInput
SameText(c, d) ==
  /\ c.via = "input" /\ d.via = "input"
  /\ c.base = d.base /\ c.cands = d.cands

\* the text commit c was triggered for is still the pending buffer
StillPending(c) ==
  /\ Trim(inputValue) # << >>
  /\ Candidates(<<inputValue>>, c.base) = c.cands

\* C40: each pending text is committed by at most one operation: when a commit
\* key has started a commit whose asynchronous validation is pending and a
\* blur or a second commit key follows before it completes, onChange is called
\* at most once for that text and at most one chip is created from it: when
\* the commit completes with its onChange call, no second commit of the same
\* text is left to complete with another.
CommittedOnce ==
  [][\A i \in DOMAIN commits :
       (Completes(i) /\ lastOp'.called)
         => \A j \in DOMAIN commits' :
              ~(SameText(commits[i], commits'[j]) /\ StillPending(commits[i]))]_vars

\* Enter, Tab or a delimiter key has started a commit and a blur a second one
\* of the same text, both suspended on the validator
BlurCommittedAgain ==
  /\ Len(commits) = 2
  /\ SameText(commits[1], commits[2]) /\ StillPending(commits[1])
  /\ lastOp.ev = "blur"

====
